---- MODULE Spec2Model ----
(***************************************************************************)
(* A model of the SCOTUS opinion parser (lib/parser): the text helpers     *)
(* (fixSmallCaps, dehyphenate, buildParagraphs, splitSCOTUSHeader,         *)
(* tagBoilerplate, parseSectionHeader) as operators over strings, computed *)
(* with the regular expressions of the source, and the chapter aggregation *)
(* of parsePdf as a state machine over the pages of one document.          *)
(***************************************************************************)
EXTENDS Integers, Sequences, FiniteSets, TLC

VARIABLES
    pc,               \* position of parsePdf: "extract" (the page loop),
                      \* "aggregate" (the loop over pages) or "done"
    pages,            \* PageResult[] collected so far
    pageIdx,          \* how many pages the aggregation loop has consumed
    chapterDatas,     \* ChapterData[] flushed so far
    currentHeader,    \* SectionHeader of the open chapter, or Null
    currentLines,     \* body lines of the open chapter
    currentFootnotes, \* footnote map of the open chapter (insertion-ordered)
    chapters,         \* Chapter[] of the returned ParsedOpinion
    fn,               \* text-helper harness: the helper under test
    arg,              \* text-helper harness: the value the helper was last applied to
    val,              \* text-helper harness: the current value
    orig,             \* text-helper harness: the input the first run started from
    runs,             \* text-helper harness: how often the helper was applied
    inflight,         \* parse endpoint: the Map from cache keys to parse promises
    promises,         \* parse endpoint: the parse promises created so far
    s3,               \* parse endpoint: the S3 cache of parsed opinions
    reqs,             \* parse endpoint: the GET requests received so far
    hitStore,         \* hit endpoints: the blob store 'hits'
    hitCalls          \* hit endpoints: the requests received so far

vars == <<pc, pages, pageIdx, chapterDatas, currentHeader, currentLines,
          currentFootnotes, chapters, fn, arg, val, orig, runs,
          inflight, promises, s3, reqs, hitStore, hitCalls>>

parseVars == <<pc, pages, pageIdx, chapterDatas, currentHeader, currentLines,
               currentFootnotes, chapters>>

helperVars == <<fn, arg, val, orig, runs>>

serverVars == <<inflight, promises, s3, reqs, hitStore, hitCalls>>

Null == "null"

\* the null of a SectionHeader | null
NullHeader == [id |-> Null]

(***************************************************************************)
(* Characters and character classes of the regular expressions.            *)
(***************************************************************************)
Lower == {"a", "b", "c", "d", "e", "f", "g", "h", "i", "j", "k", "l", "m",
          "n", "o", "p", "q", "r", "s", "t", "u", "v", "w", "x", "y", "z"}

Upper == {"A", "B", "C", "D", "E", "F", "G", "H", "I", "J", "K", "L", "M",
          "N", "O", "P", "Q", "R", "S", "T", "U", "V", "W", "X", "Y", "Z"}

Digit == {"0", "1", "2", "3", "4", "5", "6", "7", "8", "9"}

\* \w
WordCh == Lower \cup Upper \cup Digit \cup {"_"}

\* \s (the whitespace that occurs in the modelled texts)
SpaceCh == {" ", "\n", "\t"}

\* TLA+ strings are ASCII: these characters stand for U+2013 (en dash),
\* U+2014 (em dash) and U+201D (right double quotation mark)
EnDash == "~"

EmDash == "="

RightDQuote == "@"

Ch(s, i) == SubSeq(s, i, i)

(***************************************************************************)
(* A regular expression is a sequence of items, matched left to right      *)
(* with greedy quantifiers and backtracking, as the JavaScript engine      *)
(* does. Alternations are written as ordered lists of such sequences.      *)
(***************************************************************************)
\* set{min,max}; max = -1 is "no upper limit"
Cls(set, min, max) == [kind |-> "set", set |-> set, neg |-> FALSE, min |-> min, max |-> max]

\* [^set]{min,max}
NCls(set, min, max) == [kind |-> "set", set |-> set, neg |-> TRUE, min |-> min, max |-> max]

Lit(str) == [kind |-> "lit", str |-> str]

\* (str)?
OptLit(str) == [kind |-> "optlit", str |-> str]

\* \b
WB == [kind |-> "wb"]

\* $
End == [kind |-> "end"]

\* (?=re)
Look(re) == [kind |-> "look", re |-> re]

\* a lazy quantifier: [set]{min,max}? for a = Cls(..), [^set]{min,max}? for NCls(..)
Lazy(a) == [a EXCEPT !.kind = "lazy"]

\* (?:re1|re2|...)
Alt(alts) == [kind |-> "alt", alts |-> alts]

One(set) == Cls(set, 1, 1)

Opt(set) == Cls(set, 0, 1)

Star(set) == Cls(set, 0, -1)

Plus(set) == Cls(set, 1, -1)

Fail == <<-1>>

\* \b holds between the characters i-1 and i
AtWB(s, i) ==
    LET before == i > 1 /\ i - 1 <= Len(s) /\ Ch(s, i - 1) \in WordCh
        after == i >= 1 /\ i <= Len(s) /\ Ch(s, i) \in WordCh
    IN before # after

\* the number of consecutive characters from i that item a accepts, at most max
RunLen(s, i, a, max) ==
    LET avail == Len(s) - i + 1
        lim == IF max < 0 \/ max > avail THEN avail ELSE max
        \* the class accepts c when c is in its set, a negated class when it is not
        InCls(c) == IF a.neg THEN c \notin a.set ELSE c \in a.set
        Stop(n) == n = lim \/ ~InCls(Ch(s, i + n))
    IN CHOOSE n \in 0..lim : Stop(n) /\ \A m \in 0..(n - 1) : ~Stop(m)

RECURSIVE MatchFrom(_, _, _, _)
RECURSIVE Quantified(_, _, _, _, _, _)
\* The items k.. of re after a run of c characters of the class re[k - 1]
\* at position i, or after the next run length towards last for which they
\* match: a greedy quantifier starts at the longest run and gives characters
\* back, a lazy one starts at the shortest run and takes more
Quantified(re, k, s, i, c, last) ==
    LET Got(r) == IF r # Fail THEN <<i + c>> \o r
                  ELSE IF c = last THEN Fail
                  ELSE Quantified(re, k, s, i, IF last < c THEN c - 1 ELSE c + 1, last)
    IN Got(MatchFrom(re, k, s, i + c))

\* Match the items k.. of re at position i of s: the end positions (the index
\* after the last character) of the items k.., or Fail. A quantified class
\* takes the longest run (the shortest, when lazy) for which the rest of the
\* expression still matches; a group of alternatives takes the first
\* alternative for which it does.
MatchFrom(re, k, s, i) ==
    IF k > Len(re) THEN << >>
    ELSE LET a == re[k]
             Then(j, r) == IF r = Fail THEN Fail ELSE <<j>> \o r
             Rest(j) == Then(j, MatchFrom(re, k + 1, s, j))
             OrSkip(r) == IF r # Fail THEN r ELSE Rest(i)
             WithRest(alt) == MatchFrom(alt \o SubSeq(re, k + 1, Len(re)), 1, s, i)
             FirstHit(hits) ==
                 IF hits = {} THEN Fail
                 ELSE WithRest(a.alts[CHOOSE n \in hits : \A m \in hits : n <= m])
             \* the shortest of the run lengths after which the rest matches
             Shortest(lens) ==
                 IF lens = {} THEN Fail
                 ELSE Quantified(re, k + 1, s, i,
                                 CHOOSE c \in lens : \A d \in lens : c <= d, a.min)
         IN CASE a.kind = "lit" ->
                   IF i + Len(a.str) - 1 <= Len(s)
                      /\ SubSeq(s, i, i + Len(a.str) - 1) = a.str
                   THEN Rest(i + Len(a.str)) ELSE Fail
              [] a.kind = "optlit" ->
                   IF i + Len(a.str) - 1 <= Len(s)
                      /\ SubSeq(s, i, i + Len(a.str) - 1) = a.str
                   THEN OrSkip(Then(i + Len(a.str),
                                    MatchFrom(re, k + 1, s, i + Len(a.str))))
                   ELSE Rest(i)
              [] a.kind = "wb" -> IF AtWB(s, i) THEN Rest(i) ELSE Fail
              [] a.kind = "end" -> IF i = Len(s) + 1 THEN Rest(i) ELSE Fail
              [] a.kind = "look" ->
                   IF MatchFrom(a.re, 1, s, i) # Fail THEN Rest(i) ELSE Fail
              [] a.kind = "alt" ->
                   FirstHit({n \in 1..Len(a.alts) : WithRest(a.alts[n]) # Fail})
              [] a.kind = "set" ->
                   IF RunLen(s, i, a, a.max) < a.min THEN Fail
                   ELSE Quantified(re, k + 1, s, i, RunLen(s, i, a, a.max), a.min)
              [] a.kind = "lazy" ->
                   Shortest({c \in a.min..RunLen(s, i, a, a.max) :
                                 MatchFrom(re, k + 1, s, i + c) # Fail})

NoMatch == [start |-> 0, ends |-> << >>]

RECURSIVE FirstAlt(_, _, _, _)
\* the first alternative of alts (in order) that matches at position i
FirstAlt(alts, n, s, i) ==
    IF n > Len(alts) THEN NoMatch
    ELSE LET r == MatchFrom(alts[n], 1, s, i)
         IN IF r # Fail THEN [start |-> i, alt |-> n, ends |-> r]
            ELSE FirstAlt(alts, n + 1, s, i)

\* String.prototype.match / RegExp.exec without the g flag, from index i:
\* the leftmost match, and at one position the first alternative that matches
SearchAlts(alts, s, i) ==
    LET Hit(j) == FirstAlt(alts, 1, s, j) # NoMatch
    IN IF \E j \in i..(Len(s) + 1) : Hit(j)
       THEN FirstAlt(alts, 1, s, CHOOSE j \in i..(Len(s) + 1) :
                                     Hit(j) /\ \A h \in i..(j - 1) : ~Hit(h))
       ELSE NoMatch

Search(re, s, i) == SearchAlts(<<re>>, s, i)

\* RegExp.test for an unanchored expression
Test(re, s) == \E j \in 1..(Len(s) + 1) : MatchFrom(re, 1, s, j) # Fail

\* RegExp.test for an expression that starts with ^
TestAt1(re, s) == MatchFrom(re, 1, s, 1) # Fail

\* the index after the last character of the match m
MatchEnd(m) == IF m.ends = << >> THEN m.start ELSE m.ends[Len(m.ends)]

\* the text matched by the items a..b of the expression
Group(s, m, a, b) ==
    LET from == IF a = 1 THEN m.start ELSE m.ends[a - 1]
    IN SubSeq(s, from, m.ends[b] - 1)

\* a replacement is a sequence of parts: literal text or the items a..b
RLit(str) == [lit |-> str, a |-> 0, b |-> 0]

RGrp(a, b) == [lit |-> "", a |-> a, b |-> b]

RECURSIVE Expand(_, _, _, _)
Expand(tpl, n, s, m) ==
    IF n > Len(tpl) THEN ""
    ELSE (IF tpl[n].a = 0 THEN tpl[n].lit ELSE Group(s, m, tpl[n].a, tpl[n].b))
         \o Expand(tpl, n + 1, s, m)

RECURSIVE ReplaceRange(_, _, _, _, _, _)
\* The scan of a g-flagged replace over the characters lo..hi of s, when the
\* scan may resume at index pos (the end of the last match): the output for
\* lo..hi and the index at which the scan resumes after hi. The range is
\* halved so that long texts do not nest deeply.
ReplaceRange(re, s, tpl, lo, hi, pos) ==
    IF lo > hi THEN [out |-> "", pos |-> pos]
    ELSE IF lo = hi
    THEN IF lo < pos THEN [out |-> "", pos |-> pos]
         ELSE LET r == MatchFrom(re, 1, s, lo)
                  m == [start |-> lo, ends |-> r]
              IN IF r = Fail THEN [out |-> Ch(s, lo), pos |-> lo + 1]
                 ELSE [out |-> Expand(tpl, 1, s, m), pos |-> MatchEnd(m)]
    ELSE LET mid == (lo + hi) \div 2
             left == ReplaceRange(re, s, tpl, lo, mid, pos)
             right == ReplaceRange(re, s, tpl, mid + 1, hi, left.pos)
         IN [out |-> left.out \o right.out, pos |-> right.pos]

\* String.prototype.replace with a g-flagged expression (no empty matches)
ReplaceAll(re, s, tpl) == ReplaceRange(re, s, tpl, 1, Len(s), 1).out

\* String.prototype.replace with an expression without the g flag
ReplaceFirst(re, s, tpl) ==
    LET m == Search(re, s, 1)
    IN IF m = NoMatch THEN s
       ELSE SubSeq(s, 1, m.start - 1) \o Expand(tpl, 1, s, m)
            \o SubSeq(s, MatchEnd(m), Len(s))

\* String.prototype.trim
Trim(s) ==
    LET keep == {i \in 1..Len(s) : Ch(s, i) \notin SpaceCh}
    IN IF keep = {} THEN ""
       ELSE SubSeq(s, CHOOSE i \in keep : \A j \in keep : i <= j,
                      CHOOSE i \in keep : \A j \in keep : i >= j)

\* String.prototype.indexOf(t, i), 1-based; 0 when t does not occur
IndexOfFrom(s, t, i) ==
    LET At(j) == SubSeq(s, j, j + Len(t) - 1) = t
        last == Len(s) - Len(t) + 1
    IN IF \E j \in i..last : At(j)
       THEN CHOOSE j \in i..last : At(j) /\ \A h \in i..(j - 1) : ~At(h)
       ELSE 0

\* String.prototype.includes
Includes(s, t) == IndexOfFrom(s, t, 1) > 0

\* String.prototype.indexOf(t, from) with JavaScript's 0-based indices: -1 when absent
IndexOf(s, t, from) == IndexOfFrom(s, t, from + 1) - 1

\* String.prototype.slice(from, to) for 0 <= from, with JavaScript's 0-based indices
Slice(s, from, to) == SubSeq(s, from + 1, IF to > Len(s) THEN Len(s) ELSE to)

\* String.prototype.slice(from)
SliceFrom(s, from) == SubSeq(s, from + 1, Len(s))

\* match.index and match[0].length of a match
MIndex(m) == m.start - 1

MLength(m) == MatchEnd(m) - m.start

\* Array.prototype.splice(i, del, ...items) with a 0-based i
Splice(arr, i, del, items) ==
    SubSeq(arr, 1, i) \o items \o SubSeq(arr, i + del + 1, Len(arr))

Min(a, b) == IF a < b THEN a ELSE b

RECURSIVE ToLowerCase(_)
\* String.prototype.toLowerCase
ToLowerCase(s) ==
    LET LowerOf(c) ==
            CASE c = "A" -> "a" [] c = "B" -> "b" [] c = "C" -> "c" [] c = "D" -> "d"
              [] c = "E" -> "e" [] c = "F" -> "f" [] c = "G" -> "g" [] c = "H" -> "h"
              [] c = "I" -> "i" [] c = "J" -> "j" [] c = "K" -> "k" [] c = "L" -> "l"
              [] c = "M" -> "m" [] c = "N" -> "n" [] c = "O" -> "o" [] c = "P" -> "p"
              [] c = "Q" -> "q" [] c = "R" -> "r" [] c = "S" -> "s" [] c = "T" -> "t"
              [] c = "U" -> "u" [] c = "V" -> "v" [] c = "W" -> "w" [] c = "X" -> "x"
              [] c = "Y" -> "y" [] c = "Z" -> "z" [] OTHER -> c
    IN IF Len(s) <= 1 THEN LowerOf(s)
       ELSE ToLowerCase(SubSeq(s, 1, Len(s) \div 2))
            \o ToLowerCase(SubSeq(s, (Len(s) \div 2) + 1, Len(s)))

(***************************************************************************)
(* KNOWN_JUSTICES, in the key order of the object literal.                 *)
(***************************************************************************)
JusticeKeys == <<"ROBERTS", "THOMAS", "ALITO", "SOTOMAYOR", "KAGAN",
                 "GORSUCH", "KAVANAUGH", "BARRETT", "JACKSON">>

KNOWN_JUSTICES(name) ==
    CASE name = "ROBERTS" -> "Roberts" [] name = "THOMAS" -> "Thomas"
      [] name = "ALITO" -> "Alito" [] name = "SOTOMAYOR" -> "Sotomayor"
      [] name = "KAGAN" -> "Kagan" [] name = "GORSUCH" -> "Gorsuch"
      [] name = "KAVANAUGH" -> "Kavanaugh" [] name = "BARRETT" -> "Barrett"
      [] name = "JACKSON" -> "Jackson" [] OTHER -> Null

(***************************************************************************)
(* extractJusticeName and parseSectionHeader                               *)
(***************************************************************************)
extractJusticeName(text) ==
    LET splitMatch == FirstAlt(<< <<One(Upper), Plus(SpaceCh), Cls(Upper, 2, -1), End>> >>,
                               1, text, 1)
        name == Group(text, splitMatch, 1, 1) \o Group(text, splitMatch, 3, 3)
        directMatch == TestAt1(<<Cls(Upper, 2, -1), End>>, text)
    IN IF splitMatch # NoMatch /\ KNOWN_JUSTICES(name) # Null THEN name
       ELSE IF directMatch /\ KNOWN_JUSTICES(text) # Null THEN text
       ELSE Null

\* ^X\s*,\s*(?:C\.\s*)?J\. where X is the items of name; the optional
\* "C." group is followed by \s*, which after another \s* accepts the same
\* texts whether or not it is inside the group
JusticeTag(name) ==
    name \o <<Star(SpaceCh), Lit(","), Star(SpaceCh), OptLit("C."), Star(SpaceCh), Lit("J.")>>

\* the same for an expression with the i flag, matched against the
\* lower-cased text: ...\s*,\s*(concurring|dissenting)
JusticeTagI(name, type) ==
    name \o <<Star(SpaceCh), Lit(","), Star(SpaceCh), OptLit("c."), Star(SpaceCh), Lit("j."),
              Star(SpaceCh), Lit(","), Star(SpaceCh), Lit(type)>>

\* a separate writing filed under the generic opinion id
WritingHeader_Untyped(raw, name, type) ==
    [raw |-> raw, normalized |-> KNOWN_JUSTICES(name) \o ", " \o type,
     id |-> "opinion-" \o ToLowerCase(name),
     title |-> KNOWN_JUSTICES(name) \o ", " \o type, author |-> KNOWN_JUSTICES(name)]

\* the header of a separate writing: `${type}-${name.toLowerCase()}`
WritingHeader(raw, name, type) ==
    LET author == KNOWN_JUSTICES(name)
        title == author \o ", " \o type
    IN [raw |-> raw, normalized |-> title, id |-> type \o "-" \o ToLowerCase(name),
        title |-> title, author |-> author]

parseSectionHeader(headerText) ==
    LET raw == Trim(headerText)
        low == ToLowerCase(raw)
        \* [A-Z](?:\s+[A-Z]+)? : with the optional part first, then without
        opinionOfMatch ==
            FirstAlt(<<JusticeTag(<<Lit("Opinion of"), Plus(SpaceCh), One(Upper),
                                    Plus(SpaceCh), Plus(Upper)>>) \o <<End>>,
                       JusticeTag(<<Lit("Opinion of"), Plus(SpaceCh), One(Upper)>>) \o <<End>>
                     >>, 1, raw, 1)
        opinionOfName ==
            extractJusticeName(Group(raw, opinionOfMatch, 3, IF opinionOfMatch.alt = 1 THEN 5 ELSE 3))
        \* with the i flag [A-Z] accepts lower-case letters too; the optional
        \* tail (?:\s+in\s+...)? changes neither the match nor its groups
        justiceMatch ==
            FirstAlt(<<JusticeTagI(<<One(Lower), Plus(SpaceCh), Plus(Lower)>>, "concurring"),
                       JusticeTagI(<<One(Lower), Plus(SpaceCh), Plus(Lower)>>, "dissenting"),
                       JusticeTagI(<<One(Lower)>>, "concurring"),
                       JusticeTagI(<<One(Lower)>>, "dissenting")>>, 1, low, 1)
        justiceName ==
            extractJusticeName(Group(raw, justiceMatch, 1, IF justiceMatch.alt <= 2 THEN 3 ELSE 1))
        justiceType == IF justiceMatch.alt \in {1, 3} THEN "concurring" ELSE "dissenting"
        directJusticeMatch ==
            FirstAlt(<<JusticeTagI(<<Cls(Lower, 2, -1)>>, "concurring"),
                       JusticeTagI(<<Cls(Lower, 2, -1)>>, "dissenting")>>, 1, low, 1)
        fullName == Group(raw, directJusticeMatch, 1, 1)
        directType == IF directJusticeMatch.alt = 1 THEN "concurring" ELSE "dissenting"
    IN IF raw = "" THEN NullHeader
       ELSE IF raw = "Syllabus"
       THEN [raw |-> raw, normalized |-> "Syllabus", id |-> "syllabus",
             title |-> "Syllabus", author |-> Null]
       ELSE IF raw = "Opinion of the Court"
       THEN [raw |-> raw, normalized |-> "Opinion of the Court", id |-> "opinion-majority",
             title |-> "Opinion of the Court", author |-> Null]
       ELSE IF low = "per curiam"
       THEN [raw |-> raw, normalized |-> "Per Curiam", id |-> "opinion-per-curiam",
             title |-> "Per Curiam", author |-> Null]
       ELSE IF opinionOfMatch # NoMatch /\ opinionOfName # Null
       THEN LET author == KNOWN_JUSTICES(opinionOfName)
                title == "Opinion of " \o author
            IN IF Test(<<Lit("C."), Star(SpaceCh), Lit("J.")>>, raw)
               THEN [raw |-> raw, normalized |-> "Opinion of the Court",
                     id |-> "opinion-majority", title |-> "Opinion of the Court",
                     author |-> author]
               ELSE [raw |-> raw, normalized |-> title,
                     id |-> "opinion-" \o ToLowerCase(opinionOfName),
                     title |-> title, author |-> author]
       ELSE IF justiceMatch # NoMatch /\ justiceName # Null
       THEN WritingHeader(raw, justiceName, justiceType)
       ELSE IF directJusticeMatch # NoMatch /\ KNOWN_JUSTICES(fullName) # Null
       THEN WritingHeader(raw, fullName, directType)
       ELSE NullHeader

(***************************************************************************)
(* fixSmallCaps                                                            *)
(***************************************************************************)
\* result.replace(re, to) for a g-flagged re, as one rewriting rule
Rule(re, to) == [re |-> re, tpl |-> <<RLit(to)>>, on |-> TRUE]

\* the same with a replacement that refers to groups of the match
RuleT(re, tpl) == [re |-> re, tpl |-> tpl, on |-> TRUE]

RECURSIVE ApplyRules(_, _, _)
\* the statements result = result.replace(...) from the n-th on, in order
ApplyRules(rules, text, n) ==
    IF n > Len(rules) THEN text
    ELSE LET Go(next) == IF next = text THEN ApplyRules(rules, text, n + 1)
                         ELSE ApplyRules(rules, next, n + 1)
         IN Go(IF rules[n].on THEN ReplaceAll(rules[n].re, text, rules[n].tpl) ELSE text)

\* the body of the first loop over KNOWN_JUSTICES: "R OBERTS" -> "ROBERTS"
SplitNameRule(name) ==
    LET first == Ch(name, 1)
        rest == SubSeq(name, 2, Len(name))
    IN Rule(<<Lit(first), Plus(SpaceCh), Lit(rest), WB>>, name)

\* the orphan rule without its leading word boundary
OrphanNameRule_NoBoundary(name) ==
    LET rest == SubSeq(name, 2, Len(name))
        regex == <<Lit(rest), WB,
                   Look(<<Star(SpaceCh), One({",", ".", "'"} \cup SpaceCh)>>)>>
    IN [re |-> regex, tpl |-> <<RLit(name)>>, on |-> Len(rest) >= 4]

\* the body of the second loop over KNOWN_JUSTICES: "ORSUCH," -> "GORSUCH,"
OrphanNameRule(name) ==
    LET rest == SubSeq(name, 2, Len(name))
        regex == <<WB, Lit(rest), WB,
                   Look(<<Star(SpaceCh), One({",", ".", "'"} \cup SpaceCh)>>)>>
    IN [re |-> regex, tpl |-> <<RLit(name)>>, on |-> Len(rest) >= 4]

fixSmallCaps(text) ==
    ApplyRules(
        <<Rule(<<Lit("J"), Plus(SpaceCh), Lit("USTICE")>>, "JUSTICE"),
          Rule(<<Lit("C"), Plus(SpaceCh), Lit("HIEF")>>, "CHIEF")>>
        \o [n \in 1..Len(JusticeKeys) |-> SplitNameRule(JusticeKeys[n])]
        \o <<Rule(<<WB, Lit("USTICE"), WB>>, "JUSTICE"),
             Rule(<<WB, Lit("HIEF"), WB>>, "CHIEF")>>
        \o [n \in 1..Len(JusticeKeys) |-> OrphanNameRule(JusticeKeys[n])],
        text, 1)

(***************************************************************************)
(* dehyphenate                                                             *)
(***************************************************************************)
\* a rejoining that does not ask for a lowercase letter after the hyphen
dehyphenate_AnyLetter(text) ==
    ReplaceAll(<<One(WordCh), Star(SpaceCh), Lit("-"), Plus(SpaceCh), One(Lower \cup Upper)>>,
               text, <<RGrp(1, 1), RGrp(5, 5)>>)

\* a rejoining that leaves the marker out: before + after
dehyphenate_DropMarker(text) ==
    ReplaceAll(<<One(WordCh), Star(SpaceCh), Lit("-"), Plus(SpaceCh), One(Lower)>>,
               ReplaceAll(<<Plus(WordCh), Star(SpaceCh), Lit("-"), Plus(SpaceCh),
                            Lit("{{fn:"), Plus(Digit), Lit("}}"), Plus(SpaceCh),
                            One(Lower), Star(WordCh)>>,
                          text, <<RGrp(1, 1), RGrp(9, 10)>>),
               <<RGrp(1, 1), RGrp(5, 5)>>)

dehyphenate(text) ==
    ApplyRules(
        <<\* /(\w+)\s*-\s+(\{\{fn:\d+\}\})\s+([a-z]\w*)/g -> before + after + marker
          RuleT(<<Plus(WordCh), Star(SpaceCh), Lit("-"), Plus(SpaceCh),
                  Lit("{{fn:"), Plus(Digit), Lit("}}"), Plus(SpaceCh),
                  One(Lower), Star(WordCh)>>,
                <<RGrp(1, 1), RGrp(9, 10), RGrp(5, 7)>>),
          \* /(\w)\s*-\s+\d+\s+([a-z])/g -> '$1$2'
          RuleT(<<One(WordCh), Star(SpaceCh), Lit("-"), Plus(SpaceCh),
                  Plus(Digit), Plus(SpaceCh), One(Lower)>>,
                <<RGrp(1, 1), RGrp(7, 7)>>),
          \* /(\w)\s*-\s+([a-z])/g -> '$1$2'
          RuleT(<<One(WordCh), Star(SpaceCh), Lit("-"), Plus(SpaceCh), One(Lower)>>,
                <<RGrp(1, 1), RGrp(5, 5)>>)>>,
        text, 1)

(***************************************************************************)
(* buildParagraphs                                                         *)
(***************************************************************************)
RECURSIVE SplitRange(_, _, _, _, _)
\* The scan of split over the characters lo..hi of s, from the state st:
\* the pieces completed so far, the piece being collected and the index at
\* which the scan may resume.
SplitRange(re, s, lo, hi, st) ==
    IF lo > hi THEN st
    ELSE IF lo = hi
    THEN IF lo < st.pos THEN st
         ELSE LET r == MatchFrom(re, 1, s, lo)
              IN IF r = Fail
                 THEN [done |-> st.done, cur |-> st.cur \o Ch(s, lo), pos |-> lo + 1]
                 ELSE [done |-> Append(st.done, st.cur), cur |-> "", pos |-> r[Len(r)]]
    ELSE LET mid == (lo + hi) \div 2
             left == SplitRange(re, s, lo, mid, st)
         IN IF left.pos > hi THEN left ELSE SplitRange(re, s, mid + 1, hi, left)

\* String.prototype.split with a regular expression that has no groups
Split(re, s) ==
    LET Pieces(st) == Append(st.done, st.cur)
    IN Pieces(SplitRange(re, s, 1, Len(s), [done |-> << >>, cur |-> "", pos |-> 1]))

Para(text) == [text |-> text, footnotes |-> << >>]

\* /^\{\{h[1-3]:.+\}\}$/
IsHeadingMarker(t) ==
    TestAt1(<<Lit("{{h"), One({"1", "2", "3"}), Lit(":"), NCls({"\n"}, 1, -1),
              Lit("}}"), End>>, t)

\* the three "Skip repeated headers" tests
IsRepeatedHeader(t) ==
    \/ TestAt1(<<Plus(Digit), Plus(SpaceCh), Plus(Upper \cup SpaceCh), Lit("v."),
                 Plus(SpaceCh), Plus(Upper \cup SpaceCh), End>>, t)
    \/ TestAt1(<<Lit("Cite as:")>>, t)
    \/ TestAt1(<<Lit("SUPREME COURT OF THE UNITED STATES"), End>>, t)

\* a merge test that does not look at the first letter of the candidate
IsContinuation_AnyCase(paragraphs, trimmed) ==
    /\ Len(paragraphs) > 0
    /\ ~TestAt1(<<Lit("{{h"), One({"1", "2", "3"}), Lit(":")>>,
                paragraphs[Len(paragraphs)].text)
    /\ Len(trimmed) > 0
    /\ ~Test(<<One({".", "!", "?", ";", ":", "'", "\"", ")", RightDQuote}),
               Star(SpaceCh), End>>, paragraphs[Len(paragraphs)].text)

\* the condition under which a candidate is merged into the last paragraph
IsContinuation(paragraphs, trimmed) ==
    LET prevText == IF Len(paragraphs) > 0 THEN paragraphs[Len(paragraphs)].text ELSE ""
        prevIsHeading == TestAt1(<<Lit("{{h"), One({"1", "2", "3"}), Lit(":")>>, prevText)
    IN /\ Len(paragraphs) > 0
       /\ ~prevIsHeading
       /\ Len(trimmed) > 0
       /\ TestAt1(<<One(Lower)>>, trimmed)
       /\ ~Test(<<One({".", "!", "?", ";", ":", "'", "\"", ")", RightDQuote}),
                  Star(SpaceCh), End>>, prevText)

\* one iteration of the loop over rawParagraphs
AddCandidate(paragraphs, raw) ==
    LET Fixed(fixed) ==
            IF IsContinuation(paragraphs, fixed)
            THEN [paragraphs EXCEPT ![Len(paragraphs)].text =
                     dehyphenate(paragraphs[Len(paragraphs)].text \o " " \o fixed)]
            ELSE Append(paragraphs, Para(fixed))
        Dehyphenated(dehyph) ==
            IF IsRepeatedHeader(dehyph) THEN paragraphs ELSE Fixed(fixSmallCaps(dehyph))
        Trimmed(trimmed) ==
            IF trimmed = "" THEN paragraphs
            ELSE IF IsHeadingMarker(trimmed) THEN Append(paragraphs, Para(trimmed))
            ELSE IF Len(trimmed) < 3 THEN paragraphs
            ELSE Dehyphenated(dehyphenate(trimmed))
    IN Trimmed(Trim(ReplaceAll(<<Plus(SpaceCh)>>,
                               ReplaceAll(<<Lit("\n")>>, raw, <<RLit(" ")>>),
                               <<RLit(" ")>>)))

RECURSIVE BuildFrom(_, _, _)
BuildFrom(rawParagraphs, paragraphs, n) ==
    IF n > Len(rawParagraphs) THEN paragraphs
    ELSE LET Go(next) == IF next = paragraphs THEN BuildFrom(rawParagraphs, paragraphs, n + 1)
                         ELSE BuildFrom(rawParagraphs, next, n + 1)
         IN Go(AddCandidate(paragraphs, rawParagraphs[n]))

buildParagraphs(text) ==
    BuildFrom(Split(<<Cls({"\n"}, 2, -1)>>, text), << >>, 1)

(***************************************************************************)
(* splitSCOTUSHeader                                                       *)
(***************************************************************************)
BANNER == "SUPREME COURT OF THE UNITED STATES"

\* /Decided\s+\w+\s+\d+,\s+\d{4}\s*/ (maxDay = -1) and
\* /Decided\s+\w+\s+\d{1,2},\s+\d{4}\s*/ (maxDay = 2)
DecidedRe(maxDay) ==
    <<Lit("Decided"), Plus(SpaceCh), Plus(WordCh), Plus(SpaceCh),
      Cls(Digit, 1, maxDay), Lit(","), Plus(SpaceCh), Cls(Digit, 4, 4), Star(SpaceCh)>>

\* a split that pushes no segment
PushIf_Never(segments, x) == segments

\* if (x) segments.push(x)
PushIf(segments, x) == IF x # "" THEN Append(segments, x) ELSE segments

splitSCOTUSHeader(text) ==
    LET \* the split at "No." / "Nos.", and the result
        AtDocket(segments, remaining, bodyRest, noMatch) ==
            [bpParts |-> IF noMatch # NoMatch
                         THEN PushIf(PushIf(segments,
                                            Trim(Slice(remaining, 0, MIndex(noMatch)))),
                                     Trim(SliceFrom(remaining, MIndex(noMatch))))
                         ELSE PushIf(segments, remaining),
             bodyRest |-> bodyRest]
        \* /\s+(No(?:s)?\.\s+\d)/
        Docket(segments, remaining, bodyRest) ==
            AtDocket(segments, remaining, bodyRest,
                     Search(<<Plus(SpaceCh), Lit("No"), Opt({"s"}), Lit("."),
                              Plus(SpaceCh), One(Digit)>>, remaining, 1))
        \* the split at "CERTIORARI" or "ON WRIT OF"
        AtCert(segments, remaining, bodyRest, certMatch) ==
            Docket(IF certMatch # NoMatch
                   THEN PushIf(segments, Trim(Slice(remaining, 0, MIndex(certMatch))))
                   ELSE segments,
                   IF certMatch # NoMatch THEN Trim(SliceFrom(remaining, MIndex(certMatch)))
                   ELSE remaining,
                   bodyRest)
        \* /\s+(CERTIORARI\b|ON WRIT OF\b)/
        Cert(segments, remaining, bodyRest) ==
            AtCert(segments, remaining, bodyRest,
                   SearchAlts(<<<<Plus(SpaceCh), Lit("CERTIORARI"), WB>>,
                                <<Plus(SpaceCh), Lit("ON WRIT OF"), WB>>>>, remaining, 1))
        \* remaining.replace(/^Syllabus\s*/, '')
        NoSyllabus(segments, remaining, bodyRest, syl) ==
            Cert(segments,
                 IF syl = Fail THEN remaining
                 ELSE SubSeq(remaining, syl[Len(syl)], Len(remaining)),
                 bodyRest)
        Syllabus(segments, remaining, bodyRest) ==
            NoSyllabus(segments, remaining, bodyRest,
                       MatchFrom(<<Lit("Syllabus"), Star(SpaceCh)>>, 1, remaining, 1))
        \* the SUPREME COURT header; scotusEnd > 0 even when indexOf is -1
        Banner(headerText, bodyRest, scotusEnd) ==
            Syllabus(IF scotusEnd > 0 THEN <<Trim(Slice(headerText, 0, scotusEnd))>>
                     ELSE << >>,
                     IF scotusEnd > 0 /\ scotusEnd <= Len(headerText)
                     THEN Trim(SliceFrom(headerText, scotusEnd))
                     ELSE IF scotusEnd > 0 THEN "" ELSE headerText,
                     bodyRest)
        \* the body text after "Decided <date>" is split off
        AtDecided(decidedMatch, cutIdx) ==
            Banner(IF decidedMatch # NoMatch THEN Trim(Slice(text, 0, cutIdx)) ELSE text,
                   IF decidedMatch # NoMatch THEN Trim(SliceFrom(text, cutIdx)) ELSE "",
                   IndexOf(IF decidedMatch # NoMatch THEN Trim(Slice(text, 0, cutIdx)) ELSE text,
                           BANNER, 0) + Len(BANNER))
        Decided(decidedMatch) ==
            AtDecided(decidedMatch, MIndex(decidedMatch) + MLength(decidedMatch))
    IN Decided(Search(DecidedRe(-1), text, 1))

(***************************************************************************)
(* tagBoilerplate                                                          *)
(***************************************************************************)
Bp(t) == "{{bp:" \o t \o "}}"

\* the anchor wrapped as a plain boilerplate line
Bpj_Plain(t) == "{{bp:" \o t \o "}}"

\* `{{bpj:${text}}}`
Bpj(t) == "{{bpj:" \o t \o "}}"

\* a test that skips headings only, not paragraphs tagged already
StartsTagged_HeadingOnly(t) == TestAt1(<<Lit("{{h")>>, t)

\* /^\{\{/ : already tagged, or a heading
StartsTagged(t) == TestAt1(<<Lit("{{")>>, t)

\* /delivered|announced|concurring|dissenting/
HasDispositionVerb(t) ==
    Includes(t, "delivered") \/ Includes(t, "announced")
    \/ Includes(t, "concurring") \/ Includes(t, "dissenting")

\* the three tests of the scan for the JUSTICE delivery line
IsAnchor(t) ==
    \/ /\ TestAt1(<<OptLit("THE "), OptLit("CHIEF "), Lit("JUSTICE"), WB>>, t)
       /\ HasDispositionVerb(t)
    \/ /\ Test(<<WB, Lit("join"), WB>>, ToLowerCase(t))
       /\ (Includes(t, "concurring") \/ Includes(t, "dissenting"))
    \/ TestAt1(<<Lit("per curiam"), WB>>, ToLowerCase(t))

RECURSIVE Phase1(_, _)
\* the first loop: NOTE / NOTICE / SUPREME COURT paragraphs among the first 3
Phase1(paragraphs, i) ==
    IF ~(i < Min(Len(paragraphs), 3)) THEN paragraphs
    ELSE LET Continue(step) == Phase1(step.paragraphs, step.i)
             Skip == [paragraphs |-> paragraphs, i |-> i + 1]
             TagWhole(text) ==
                 [paragraphs |-> [paragraphs EXCEPT ![i + 1].text = Bp(text)], i |-> i + 1]
             \* the NOTE is cut after the sentence of the citation
             CutNote(tagged, rest) ==
                 [paragraphs |-> IF rest # "" THEN Splice(tagged, i + 1, 0, <<Para(rest)>>)
                                 ELSE tagged,
                  i |-> i + 1]
             NoteEnd(text, endIdx) ==
                 CutNote([paragraphs EXCEPT ![i + 1].text = Bp(Trim(Slice(text, 0, endIdx)))],
                         Trim(SliceFrom(text, endIdx)))
             NoteCitation(text, cutoff) ==
                 IF cutoff > 0 THEN NoteEnd(text, IndexOf(text, ".", cutoff + 4) + 1)
                 ELSE TagWhole(text)
             \* the merged header is replaced by its parts
             SplitHeader(split) ==
                 [paragraphs |->
                      Splice(paragraphs, i, 1,
                             [k \in 1..Len(split.bpParts) |-> Para(Bp(split.bpParts[k]))]
                             \o (IF split.bodyRest # "" THEN <<Para(split.bodyRest)>>
                                 ELSE << >>)),
                  i |-> (i + Len(split.bpParts) - 1) + 1]
             Visit(text) ==
                 IF StartsTagged(text) THEN Skip
                 ELSE IF TestAt1(<<Lit("NOTE: Where it is feasible")>>, text)
                 THEN NoteCitation(text,
                                   MIndex(Search(<<WB, Lit("321,"), Star(SpaceCh), Lit("337."),
                                                   Star(SpaceCh)>>, text, 1)))
                 ELSE IF TestAt1(<<Lit("NOTICE: This opinion")>>, text) THEN TagWhole(text)
                 ELSE IF TestAt1(<<Lit(BANNER)>>, text) THEN SplitHeader(splitSCOTUSHeader(text))
                 ELSE Skip
         IN Continue(Visit(paragraphs[i + 1].text))

\* the scan for the JUSTICE delivery line: its index, or -1
FindJusticeIdx(paragraphs) ==
    LET scanLimit == Min(Len(paragraphs), 15)
        Found(i) == ~StartsTagged(paragraphs[i + 1].text) /\ IsAnchor(paragraphs[i + 1].text)
    IN IF \E i \in 0..(scanLimit - 1) : Found(i)
       THEN CHOOSE i \in 0..(scanLimit - 1) : Found(i) /\ \A j \in 0..(i - 1) : ~Found(j)
       ELSE -1

RECURSIVE TagUpToJustice(_, _, _)
\* the loop of the branch justiceIdx >= 0
\* a long paragraph is cut after "Decided <date>": its tagged part and the rest
CutAtDecided(paragraphs, i, text, decidedMatch) ==
    LET Cut(tagged, bodyPart) ==
            [found |-> TRUE, split |-> bodyPart # "",
             paragraphs |-> IF bodyPart # "" THEN Splice(tagged, i + 1, 0, <<Para(bodyPart)>>)
                            ELSE tagged]
        At(splitIdx) ==
            Cut([paragraphs EXCEPT ![i + 1].text = Bp(Trim(Slice(text, 0, splitIdx)))],
                Trim(SliceFrom(text, splitIdx)))
    IN IF decidedMatch # NoMatch THEN At(MIndex(decidedMatch) + MLength(decidedMatch))
       ELSE [found |-> FALSE, split |-> FALSE, paragraphs |-> paragraphs]

\* the loop of the branch justiceIdx >= 0
TagUpToJustice(paragraphs, i, justiceIdx) ==
    IF ~(i < Len(paragraphs) /\ i <= justiceIdx) THEN paragraphs
    ELSE LET Continue(step) == TagUpToJustice(step.paragraphs, i + 1, step.justiceIdx)
             Decided(cut) ==
                 [paragraphs |-> cut.paragraphs,
                  justiceIdx |-> IF cut.split THEN justiceIdx + 1 ELSE justiceIdx]
             Visit(text) ==
                 IF StartsTagged(text)
                 THEN [paragraphs |-> paragraphs, justiceIdx |-> justiceIdx]
                 ELSE IF i = justiceIdx
                 THEN [paragraphs |-> [paragraphs EXCEPT ![i + 1].text = Bpj(text)],
                       justiceIdx |-> justiceIdx]
                 ELSE IF Len(text) < 500
                 THEN [paragraphs |-> [paragraphs EXCEPT ![i + 1].text = Bp(text)],
                       justiceIdx |-> justiceIdx]
                 ELSE Decided(CutAtDecided(paragraphs, i, text,
                                           Search(DecidedRe(2), text, 1)))
         IN Continue(Visit(paragraphs[i + 1].text))

\* a caption test without the length bound
IsCaseCaption_AnyLength(text) ==
    \/ Test(<<WB, Lit("v."), Star(SpaceCh), End>>, text)
    \/ TestAt1(<<One(Upper), Plus(Upper \cup SpaceCh \cup {".", ","}), WB,
                 Lit("v"), Star(SpaceCh), Lit("."), One(SpaceCh)>>, text)

\* the three pattern tests of the branch without a JUSTICE line
IsCaseCaption(text) ==
    Len(text) < 250
    /\ (\/ Test(<<WB, Lit("v."), Star(SpaceCh), End>>, text)
        \/ TestAt1(<<One(Upper), Plus(Upper \cup SpaceCh \cup {".", ","}), WB,
                     Lit("v"), Star(SpaceCh), Lit("."), One(SpaceCh)>>, text))

IsCertLine(text) ==
    Len(text) < 350
    /\ (\/ Test(<<Lit("CERTIORARI"), WB>>, text)
        \/ Includes(text, "PETITIONER")
        \/ Includes(text, "ON WRIT OF"))

IsDocketDate(text) ==
    Len(text) < 350
    /\ (\/ TestAt1(<<Lit("No"), Opt({"s"}), Lit("."), Plus(SpaceCh), Cls(Digit, 2, 2),
                     One({EnDash, "-"}), Plus(Digit)>>, text)
        \/ Test(<<Lit("Argued"), Plus(SpaceCh), Plus(WordCh), Plus(SpaceCh),
                  One(Digit)>>, text))

RECURSIVE TagLeadingRun(_, _, _)
\* the loop of the branch without a JUSTICE line
\* the loop of the branch without a JUSTICE line
TagLeadingRun(paragraphs, i, scanLimit) ==
    IF ~(i < scanLimit) THEN paragraphs
    ELSE LET Continue(step) ==
                 IF step.break THEN step.paragraphs
                 ELSE TagLeadingRun(step.paragraphs, i + 1, scanLimit)
             Pattern(text, isCaption, stops) ==
                 IF isCaption \/ stops
                 THEN [paragraphs |-> [paragraphs EXCEPT ![i + 1].text = Bp(text)],
                       break |-> stops]
                 ELSE [paragraphs |-> CutAtDecided(paragraphs, i, text,
                                                   Search(DecidedRe(2), text, 1)).paragraphs,
                       break |-> TRUE]
             Visit(text) ==
                 IF StartsTagged(text) THEN [paragraphs |-> paragraphs, break |-> FALSE]
                 ELSE Pattern(text, IsCaseCaption(text), IsDocketDate(text) \/ IsCertLine(text))
         IN Continue(Visit(paragraphs[i + 1].text))

tagBoilerplate(paragraphs) ==
    LET Tag(phase1, justiceIdx) ==
            IF justiceIdx >= 0 THEN TagUpToJustice(phase1, 0, justiceIdx)
            ELSE TagLeadingRun(phase1, 0, Min(Len(phase1), 15))
        Scan(phase1) == Tag(phase1, FindJusticeIdx(phase1))
    IN Scan(Phase1(paragraphs, 0))

(***************************************************************************)
(* Metadata: the case title, the docket number and the decided date        *)
(***************************************************************************)
\* Fallback case title extraction from body text
extractCaseTitleFromText(text) ==
    LET NonEmpty(l) == Trim(l) # ""
        \* /^(.+?)\s+v\s*\.\s+(.+?)(?:\s{2,}|$)/
        TitleRe == <<Lazy(NCls({"\n"}, 1, -1)), Plus(SpaceCh), Lit("v"), Star(SpaceCh),
                     Lit("."), Plus(SpaceCh), Lazy(NCls({"\n"}, 1, -1)),
                     Alt(<<<<Cls(SpaceCh, 2, -1)>>, <<End>>>>)>>
        Matches(line) == MatchFrom(TitleRe, 1, Trim(line), 1) # Fail
        \* .replace(/[,\s]+$/, '')
        NoTail(t) == ReplaceFirst(<<Plus(SpaceCh \cup {","}), End>>, t, << >>)
        Clean(t) ==
            NoTail(Trim(ApplyRules(
                <<\* .replace(/\s+/g, ' ')
                  RuleT(<<Plus(SpaceCh)>>, <<RLit(" ")>>),
                  \* .replace(/\bET AL\b\.?\s*\.?/gi, 'et al.')
                  RuleT(<<WB, One({"E", "e"}), One({"T", "t"}), Lit(" "),
                          One({"A", "a"}), One({"L", "l"}), WB,
                          Opt({"."}), Star(SpaceCh), Opt({"."})>>,
                        <<RLit("et al.")>>),
                  \* .replace(/\.\s*\./g, '.')
                  RuleT(<<Lit("."), Star(SpaceCh), Lit(".")>>, <<RLit(".")>>)>>,
                t, 1)))
        OrUnknown(title) == IF title # "" THEN title ELSE "Unknown Case"
        Title(trimmed, m) ==
            OrUnknown(Clean(Group(trimmed, m, 1, 1) \o " v. " \o Group(trimmed, m, 7, 7)))
        TitleOf(trimmed) ==
            Title(trimmed, [start |-> 1, ends |-> MatchFrom(TitleRe, 1, trimmed, 1)])
        \* the first of the lines that matches
        First(lines, hits) ==
            IF hits = {} THEN "Unknown Case"
            ELSE TitleOf(Trim(lines[CHOOSE n \in hits : \A m \in hits : n <= m]))
        Scan(lines) == First(lines, {n \in 1..Len(lines) : Matches(lines[n])})
        \* lines.slice(0, 20)
        First20(lines) == Scan(SubSeq(lines, 1, Min(20, Len(lines))))
    IN First20(SelectSeq(Split(<<Lit("\n")>>, text), NonEmpty))

extractDocketNumber(text) ==
    LET \* match[1].replace('–', '-'): a string pattern replaces its first occurrence
        Docket(m) == IF m = NoMatch THEN ""
                     ELSE ReplaceFirst(<<Lit(EnDash)>>, Group(text, m, 3, 3), <<RLit("-")>>)
    \* /No\.\s*([\d\-–]+)/
    IN Docket(Search(<<Lit("No."), Star(SpaceCh), Plus(Digit \cup {"-", EnDash})>>, text, 1))

extractDecidedDate(text) ==
    LET \* /\[(\w+\s+\d+,\s+\d{4})\]/
        Bracket(bracketMatch) ==
            IF bracketMatch # NoMatch THEN Group(text, bracketMatch, 2, 7) ELSE ""
        Decided(decidedMatch) ==
            IF decidedMatch # NoMatch THEN Group(text, decidedMatch, 3, 8)
            ELSE Bracket(Search(<<Lit("["), Plus(WordCh), Plus(SpaceCh), Plus(Digit),
                                  Lit(","), Plus(SpaceCh), Cls(Digit, 4, 4), Lit("]")>>,
                                text, 1))
    \* /Decided\s+(\w+\s+\d+,\s+\d{4})/
    IN Decided(Search(<<Lit("Decided"), Plus(SpaceCh), Plus(WordCh), Plus(SpaceCh),
                        Plus(Digit), Lit(","), Plus(SpaceCh), Cls(Digit, 4, 4)>>, text, 1))

(***************************************************************************)
(* The harness of the text helpers: a helper is applied to a text and then *)
(* applied again to its own result.                                        *)
(***************************************************************************)
MaxRuns == 2

\* fragments of small-caps text; the inputs are their concatenations
CapsFragments == <<"J", "USTICE", "C", "HIEF", " ", "T", "HOMAS",
                   "OTOMAYOR", "ROBERTS", ",">>

\* no request has reached the endpoints
ServerIdle ==
    /\ inflight = << >>
    /\ promises = << >>
    /\ s3 = << >>
    /\ reqs = << >>
    /\ hitStore = << >>
    /\ hitCalls = << >>

ParseIdle ==
    /\ pc = "idle"
    /\ pages = << >>
    /\ pageIdx = 0
    /\ chapterDatas = << >>
    /\ currentHeader = NullHeader
    /\ currentLines = << >>
    /\ currentFootnotes = << >>
    /\ chapters = << >>

RECURSIVE Concat(_, _, _)
Concat(frags, f, n) ==
    IF n > Len(f) THEN "" ELSE frags[f[n]] \o Concat(frags, f, n + 1)

MaxFrags == 3

\* the texts are made of at most MaxFrags fragments
InitCaps ==
    /\ ParseIdle
    /\ ServerIdle
    /\ fn = "fixSmallCaps"
    /\ orig \in UNION {{Concat(CapsFragments, f, 1) : f \in [1..n -> 1..Len(CapsFragments)]} :
                         n \in 0..MaxFrags}
    /\ val = orig
    /\ arg = ""
    /\ runs = 0

\* one more call of fixSmallCaps on the current text
ApplyFixSmallCaps ==
    /\ fn = "fixSmallCaps"
    /\ runs < MaxRuns
    /\ arg' = val
    /\ val' = fixSmallCaps(val)
    /\ runs' = runs + 1
    /\ UNCHANGED <<fn, orig, parseVars, serverVars>>

SpecCaps == InitCaps /\ [][ApplyFixSmallCaps]_vars

(***************************************************************************)
(* The harness for tagBoilerplate: the paragraph lists are the results of  *)
(* buildParagraphs on chapter texts made of the blocks below.              *)
(***************************************************************************)
RECURSIVE Repeat(_, _)
Repeat(str, n) == IF n = 0 THEN "" ELSE str \o Repeat(str, n - 1)

\* body prose that makes a paragraph longer than 500 characters
TagBlocks ==
    LET LongBody == Repeat("The court held that the statute was valid in this case. ", 8)
    IN
    <<"NOTE: Where it is feasible, see 200 U. S. 321, 337. Held: Affirmed.",
      "NOTICE: This opinion is subject to revision.",
      "SUPREME COURT OF THE UNITED STATES Syllabus FOO v. BAR CERTIORARI TO THE FIFTH CIRCUIT No. 23~100. Argued March 1, 2024=Decided June 15, 2024 The body starts here.",
      "FOO ET AL. v. BAR",
      "CERTIORARI TO THE FIFTH CIRCUIT",
      "No. 23-100. Argued March 1, 2024=Decided June 15, 2024",
      "J USTICE T HOMAS delivered the opinion of the Court.",
      "The court held that the statute was valid.",
      "FOO v. BAR ON WRIT OF CERTIORARI No. 23-100. Argued March 1, 2024=Decided June 15, 2024 "
          \o LongBody,
      "In Foo v. Bar the court said more than it needed to. " \o LongBody>>

MaxBlocks == 2

RECURSIVE JoinBlocks(_, _, _)
\* the blocks f[n].. of a chapter, each followed by a paragraph break
JoinBlocks(blocks, f, n) ==
    IF n > Len(f) THEN "" ELSE blocks[f[n]] \o "\n\n" \o JoinBlocks(blocks, f, n + 1)

\* the chapter texts are made of at most MaxBlocks blocks
InitTag ==
    /\ ParseIdle
    /\ ServerIdle
    /\ fn = "buildParagraphs"
    /\ orig \in UNION {{JoinBlocks(TagBlocks, f, 1) : f \in [1..n -> 1..Len(TagBlocks)]} :
                         n \in 0..MaxBlocks}
    /\ val = orig
    /\ arg = orig
    /\ runs = 0

\* the chapter text becomes its paragraph list (parsePdf, chapter build)
ApplyBuildParagraphs ==
    /\ fn = "buildParagraphs"
    /\ arg' = val
    /\ val' = buildParagraphs(val)
    /\ fn' = "tagBoilerplate"
    /\ UNCHANGED <<runs, orig, parseVars, serverVars>>

\* one more call of tagBoilerplate on the current paragraph list
ApplyTagBoilerplate ==
    /\ fn = "tagBoilerplate"
    /\ runs < MaxRuns
    /\ arg' = val
    /\ val' = tagBoilerplate(val)
    /\ runs' = runs + 1
    /\ UNCHANGED <<fn, orig, parseVars, serverVars>>

SpecTag == InitTag /\ [][ApplyBuildParagraphs \/ ApplyTagBoilerplate]_vars

\* the number of boilerplate markers that open in the text t
BpOpenings(t) ==
    Cardinality({i \in 1..(Len(t) - 4) : SubSeq(t, i, i + 4) \in {"{{bp:", "{{bpj"}})

\* C8: tagBoilerplate is idempotent: a second run changes no paragraph
C8_TagBoilerplateIdempotent ==
    (fn = "tagBoilerplate" /\ runs >= 2) => val = arg

\* C10: after tagBoilerplate on the result of buildParagraphs no paragraph
\* holds a boilerplate marker inside another one and none is wrapped twice:
\* a paragraph has at most one boilerplate marker, and that one at its start
C10_NoNestedBoilerplate ==
    (fn = "tagBoilerplate" /\ runs >= 1) =>
        \A k \in 1..Len(val) :
            /\ BpOpenings(val[k].text) <= 1
            /\ BpOpenings(val[k].text) = 1 => SubSeq(val[k].text, 1, 4) = "{{bp"

\* C10 witness: phase 1 tagged the NOTICE paragraph and phase 2 then tagged
\* the JUSTICE line after it, leaving the phase-1 marker as it was
C10_Witness ==
    /\ fn = "tagBoilerplate" /\ runs = 1 /\ Len(val) = 2
    /\ val[1].text = Bp("NOTICE: This opinion is subject to revision.")
    /\ val[2].text = Bpj("JUSTICE THOMAS delivered the opinion of the Court.")

\* the paragraph list after phase 1 of the first run, and its anchor index
AfterPhase1 == Phase1(arg, 0)

AnchorIdx == FindJusticeIdx(AfterPhase1)

\* the first run of tagBoilerplate, on a list in which it finds an anchor
AnchorRun == fn = "tagBoilerplate" /\ runs = 1 /\ AnchorIdx >= 0

\* C11: when phase 2 finds an anchor, the anchor paragraph is wrapped as
\* {{bpj:...}}, every paragraph before it is wrapped as {{bp:...}}, exactly
\* one paragraph carries {{bpj:...}} and no paragraph after it is tagged
C11_AnchorTagsAllBefore ==
    AnchorRun =>
        \E j \in 1..Len(val) :
            /\ val[j].text = "{{bpj:" \o AfterPhase1[AnchorIdx + 1].text \o "}}"
            /\ \A i \in 1..(j - 1) : SubSeq(val[i].text, 1, 5) = "{{bp:"
            /\ \A i \in 1..Len(val) : i # j => SubSeq(val[i].text, 1, 6) # "{{bpj:"
            /\ \A i \in (j + 1)..Len(val) : SubSeq(val[i].text, 1, 4) # "{{bp"

\* C11 as the code has it: the anchor paragraph is wrapped as {{bpj:...}} and
\* is the only one; every paragraph before it starts with a marker (wrapped
\* as {{bp:...}} now, or tagged or a heading before), except one of 500
\* characters or more without a "Decided <date>", which stays as it was; the
\* paragraphs after the anchor stay as phase 1 left them
C11_AnchorTagsShortBefore ==
    AnchorRun =>
        \E j \in 1..Len(val) :
            /\ val[j].text = "{{bpj:" \o AfterPhase1[AnchorIdx + 1].text \o "}}"
            /\ \A i \in 1..Len(val) : i # j => SubSeq(val[i].text, 1, 6) # "{{bpj:"
            /\ \A i \in 1..(j - 1) :
                   \/ SubSeq(val[i].text, 1, 2) = "{{"
                   \/ /\ Len(val[i].text) >= 500
                      /\ Search(DecidedRe(2), val[i].text, 1) = NoMatch
                      /\ \E m \in 1..AnchorIdx : AfterPhase1[m] = val[i]
            /\ Len(val) - j = Len(AfterPhase1) - (AnchorIdx + 1)
            /\ \A i \in (j + 1)..Len(val) : val[i] = AfterPhase1[AnchorIdx + 1 + (i - j)]

\* C11 witness: a short caption before the JUSTICE line was wrapped as
\* boilerplate and the JUSTICE line as the distinguished line
C11_Witness ==
    /\ AnchorRun /\ Len(val) = 2
    /\ val[1].text = "{{bp:FOO ET AL. v. BAR}}"
    /\ val[2].text = "{{bpj:JUSTICE THOMAS delivered the opinion of the Court.}}"

\* the index just after the "Decided <date>" of the text t, or 0 without one
DecidedEnd(t) ==
    IF Search(DecidedRe(2), t, 1) = NoMatch THEN 0
    ELSE MIndex(Search(DecidedRe(2), t, 1)) + MLength(Search(DecidedRe(2), t, 1))

\* C12: with an anchor found, a paragraph before it of 500 characters or
\* more that holds "Decided <date>" is split right after the date: its prefix
\* through the date is wrapped as {{bp:...}} and the remainder follows as a
\* paragraph of its own that is not tagged, whatever its length
C12_DecidedRemainderUntagged ==
    AnchorRun =>
        \A m \in 1..AnchorIdx :
            (/\ SubSeq(AfterPhase1[m].text, 1, 2) # "{{"
             /\ Len(AfterPhase1[m].text) >= 500
             /\ DecidedEnd(AfterPhase1[m].text) > 0
             /\ Trim(SliceFrom(AfterPhase1[m].text, DecidedEnd(AfterPhase1[m].text))) # "")
            => \E i \in 1..(Len(val) - 1) :
                   /\ val[i].text = "{{bp:" \o Trim(Slice(AfterPhase1[m].text, 0,
                                                          DecidedEnd(AfterPhase1[m].text)))
                                            \o "}}"
                   /\ val[i + 1].text = Trim(SliceFrom(AfterPhase1[m].text,
                                                       DecidedEnd(AfterPhase1[m].text)))

\* the first run of tagBoilerplate, on a list in which it finds no anchor
NoAnchorRun == fn = "tagBoilerplate" /\ runs = 1 /\ AnchorIdx = -1

HasMarker(t) == Len(t) >= 2 /\ SubSeq(t, 1, 2) = "{{"

\* the least element of a non-empty set of indices, or 0 for the empty set
FirstOf(S) == IF S = {} THEN 0 ELSE CHOOSE i \in S : \A j \in S : i <= j

\* the paragraphs of ps phase 2 looks at: within the scan limit, without a
\* marker
Scanned(ps) == {i \in 1..Min(Len(ps), 15) : ~HasMarker(ps[i].text)}

\* the first scanned paragraph that matches none of the three patterns
FirstNonMatch(ps) ==
    FirstOf({i \in Scanned(ps) : /\ ~IsCaseCaption(ps[i].text)
                                 /\ ~IsCertLine(ps[i].text)
                                 /\ ~IsDocketDate(ps[i].text)})

\* the first scanned paragraph that is a cert or docket/date line
FirstCertOrDocket(ps) ==
    FirstOf({i \in Scanned(ps) : IsCertLine(ps[i].text) \/ IsDocketDate(ps[i].text)})

\* a paragraph of ps of 250 characters or more that is neither a cert nor a
\* docket/date line is not wrapped whole in res
LongNeverCaption(ps, res) ==
    \A i \in 1..Min(Len(ps), Len(res)) :
        (/\ ~HasMarker(ps[i].text)
         /\ Len(ps[i].text) >= 250
         /\ ~IsCertLine(ps[i].text)
         /\ ~IsDocketDate(ps[i].text))
        => res[i].text # "{{bp:" \o ps[i].text \o "}}"

\* res keeps the paragraphs of ps from index from on
KeepsFrom(ps, res, from) ==
    /\ Len(res) = Len(ps)
    /\ \A i \in from..Len(res) : res[i] = ps[i]

\* the leading run of the claim: ps before phase 2, res after it
StopsAtNonMatch(ps, res, nonMatch, certOrDocket) ==
    /\ nonMatch > 0 => KeepsFrom(ps, res, nonMatch)
    /\ certOrDocket > 0 => KeepsFrom(ps, res, certOrDocket + 1)
    /\ LongNeverCaption(ps, res)

AtStop(ps, res, stop, isCertOrDocket, text, cut) ==
    IF isCertOrDocket
    THEN Len(res) = Len(ps) /\ res[stop].text = "{{bp:" \o text \o "}}"
    ELSE IF cut = 0
    THEN Len(res) = Len(ps) /\ res[stop] = ps[stop]
    ELSE /\ res[stop].text = "{{bp:" \o Trim(Slice(text, 0, cut)) \o "}}"
         /\ Len(res) - Len(ps) \in {0, 1}
         /\ Len(res) = Len(ps) + 1 => res[stop + 1].text = Trim(SliceFrom(text, cut))

\* the leading run of the code, which stops at the paragraph stop (0: none)
StopsOrSplits(ps, res, scanned, stop, certOrDocket) ==
    /\ \A i \in scanned :
           (stop = 0 \/ i < stop) => res[i].text = "{{bp:" \o ps[i].text \o "}}"
    /\ stop = 0 => Len(res) = Len(ps)
    /\ stop > 0 =>
           /\ \A d \in 0..(Len(ps) - stop - 1) : res[Len(res) - d] = ps[Len(ps) - d]
           /\ AtStop(ps, res, stop, stop = certOrDocket, ps[stop].text,
                     DecidedEnd(ps[stop].text))
    /\ LongNeverCaption(ps, res)

C9_FixSmallCapsIdempotent ==
    (fn = "fixSmallCaps" /\ runs >= 2) => val = arg

\* C9 witness: the second run on "JUSTICE", the result of the first run on
\* the split small-caps text "J USTICE"
C9_Witness ==
    /\ fn = "fixSmallCaps" /\ runs = 2
    /\ orig = "J USTICE" /\ arg = "JUSTICE" /\ val = "JUSTICE"

(***************************************************************************)
(* The harness for parseSectionHeader: the header-band texts are the fixed *)
(* headers and every named form written with a surname, in the drop-cap    *)
(* split encoding or as one token.                                         *)
(***************************************************************************)
HeaderForms ==
    <<[pre |-> "Opinion of ", post |-> " , J.", kind |-> "opinion"],
      [pre |-> "Opinion of ", post |-> ", J.", kind |-> "opinion"],
      [pre |-> "Opinion of ", post |-> " , C. J.", kind |-> "chief"],
      [pre |-> "", post |-> " , J., concurring", kind |-> "concurring"],
      [pre |-> "", post |-> " , J., dissenting", kind |-> "dissenting"],
      [pre |-> "", post |-> ", J., concurring in the judgment", kind |-> "concurring"],
      [pre |-> "", post |-> ", J., concurring in judgment", kind |-> "concurring"],
      [pre |-> "", post |-> " , J., dissenting in part", kind |-> "dissenting"]>>

\* the registry surnames and one surname outside it
HeaderNames == JusticeKeys \o <<"SMITH">>

FixedHeaders ==
    <<"Syllabus", "Opinion of the Court", "Per Curiam", "PER CURIAM", "per curiam",
      " Syllabus ", "", "  ", "Some random text", "Syllabus of the Court">>

\* the header-band text, with the surname as "T HOMAS" or as "THOMAS"
HeaderText(h) ==
    h.pre \o (IF h.split THEN Ch(h.name, 1) \o " " \o SubSeq(h.name, 2, Len(h.name))
              ELSE h.name) \o h.post

InitHeader ==
    /\ ParseIdle
    /\ ServerIdle
    /\ fn = "parseSectionHeader"
    /\ arg \in {[pre |-> HeaderForms[f].pre, post |-> HeaderForms[f].post,
                  kind |-> HeaderForms[f].kind, name |-> HeaderNames[n], split |-> b] :
                     f \in 1..Len(HeaderForms), n \in 1..Len(HeaderNames), b \in BOOLEAN}
              \cup {[pre |-> FixedHeaders[t], post |-> "", kind |-> "fixed", name |-> "",
                     split |-> FALSE] : t \in 1..Len(FixedHeaders)}
    /\ orig = HeaderText(arg)
    /\ val = orig
    /\ runs = 0

\* the header band of a page is classified (parsePdf, page loop)
ApplyParseSectionHeader ==
    /\ fn = "parseSectionHeader"
    /\ runs = 0
    /\ val' = parseSectionHeader(val)
    /\ runs' = 1
    /\ UNCHANGED <<fn, orig, arg, parseVars, serverVars>>

SpecHeader == InitHeader /\ [][ApplyParseSectionHeader]_vars

\* the header band of the state has been classified
Classified == fn = "parseSectionHeader" /\ runs = 1

InRegistry(name) == \E i \in 1..Len(JusticeKeys) : JusticeKeys[i] = name

\* the id and the author the ordered rules give the header h
RuledHeader(h, text) ==
    IF text = "" THEN [id |-> Null, author |-> Null]
    ELSE IF text = "Syllabus" THEN [id |-> "syllabus", author |-> Null]
    ELSE IF text = "Opinion of the Court" THEN [id |-> "opinion-majority", author |-> Null]
    ELSE IF ToLowerCase(text) = "per curiam" THEN [id |-> "opinion-per-curiam", author |-> Null]
    ELSE IF ~InRegistry(h.name) THEN [id |-> Null, author |-> Null]
    ELSE IF h.kind = "chief"
    THEN [id |-> "opinion-majority", author |-> KNOWN_JUSTICES(h.name)]
    ELSE [id |-> h.kind \o "-" \o ToLowerCase(h.name), author |-> KNOWN_JUSTICES(h.name)]

\* the id and the author of a result of parseSectionHeader
IdAndAuthor(header) ==
    IF header = NullHeader THEN [id |-> Null, author |-> Null]
    ELSE [id |-> header.id, author |-> header.author]

C15_SplitAndDirectAgree ==
    (Classified /\ arg.kind # "fixed" /\ ~arg.split /\ InRegistry(arg.name))
        => IdAndAuthor(val)
               = IdAndAuthor(parseSectionHeader(HeaderText([arg EXCEPT !.split = TRUE])))

(***************************************************************************)
(* The harness for buildParagraphs: the chapter texts are made of the      *)
(* candidates below, separated by blank lines.                             *)
(***************************************************************************)
ParaBlocks ==
    <<"The court held that",
      "the statute was valid.",
      "{{h1:I}}",
      "and it said @no@",
      "It sent the Am -",
      "bassadors home",
      "OK",
      "Cite as: 600 U. S. 1 (2024)",
      "the rule{{fn:1}} was",
      "It{{fn:2}} is so - {{fn:3}} on{{fn:4}}.",
      "He did find - {{fn:5}}",
      "Cite as: 600 U. S. 1 {{fn:6}}">>

MaxCands == 2

\* the candidates of a chapter text: at most MaxCands of the blocks, in any order
InitPara ==
    /\ ParseIdle
    /\ ServerIdle
    /\ fn = "buildParagraphs"
    /\ orig \in UNION {[1..n -> 1..Len(ParaBlocks)] : n \in 0..MaxCands}
    /\ arg = JoinBlocks(ParaBlocks, orig, 1)
    /\ val = arg
    /\ runs = 0

\* the chapter text becomes its paragraph list
ApplyBuildParagraphsOnce ==
    /\ fn = "buildParagraphs"
    /\ runs = 0
    /\ val' = buildParagraphs(arg)
    /\ runs' = 1
    /\ UNCHANGED <<fn, orig, arg, parseVars, serverVars>>

SpecPara == InitPara /\ [][ApplyBuildParagraphsOnce]_vars

\* the candidate is a heading marker {{hN:...}}
HeadingCandidate(c) ==
    /\ Len(c) > 7
    /\ SubSeq(c, 1, 3) = "{{h" /\ Ch(c, 4) \in {"1", "2", "3"} /\ Ch(c, 5) = ":"
    /\ SubSeq(c, Len(c) - 1, Len(c)) = "}}"

\* the candidate is dropped: too short, or a running header
DroppedCandidate(c) == Len(c) < 3 \/ (Len(c) >= 8 /\ SubSeq(c, 1, 8) = "Cite as:")

\* the paragraph ends in terminal punctuation or a closing quote
EndsSentence(t) ==
    Len(t) > 0 /\ Ch(t, Len(t)) \in {".", "!", "?", ";", ":", "'", "\"", ")", RightDQuote}

\* the merge rule of the claim, for the repaired candidate c
MergesInto(paragraphs, c) ==
    /\ Len(paragraphs) > 0
    /\ ~HeadingCandidate(paragraphs[Len(paragraphs)].text)
    /\ Len(c) > 0 /\ Ch(c, 1) \in Lower
    /\ ~EndsSentence(paragraphs[Len(paragraphs)].text)

RECURSIVE ParagraphsByRule(_, _, _)
\* the paragraphs the rule of the claim makes of the candidates f[n]..
ParagraphsByRule(f, n, paragraphs) ==
    IF n > Len(f) THEN paragraphs
    ELSE IF HeadingCandidate(ParaBlocks[f[n]])
    THEN ParagraphsByRule(f, n + 1, Append(paragraphs, Para(ParaBlocks[f[n]])))
    ELSE IF DroppedCandidate(ParaBlocks[f[n]])
    THEN ParagraphsByRule(f, n + 1, paragraphs)
    ELSE IF MergesInto(paragraphs, fixSmallCaps(dehyphenate(ParaBlocks[f[n]])))
    THEN ParagraphsByRule(f, n + 1,
             [paragraphs EXCEPT ![Len(paragraphs)].text =
                  dehyphenate(paragraphs[Len(paragraphs)].text \o " "
                              \o fixSmallCaps(dehyphenate(ParaBlocks[f[n]])))])
    ELSE ParagraphsByRule(f, n + 1,
             Append(paragraphs, Para(fixSmallCaps(dehyphenate(ParaBlocks[f[n]])))))

\* C16: buildParagraphs merges a candidate into the last paragraph, with
\* de-hyphenation re-run on the joined text, exactly when a previous
\* paragraph exists, is no heading marker and does not end in terminal
\* punctuation or a closing quote, and the candidate starts with a lowercase
\* letter; otherwise the candidate is a new paragraph, and a heading-marker
\* candidate is always a paragraph of its own with its text unchanged
C16_MergeIffContinuation ==
    (fn = "buildParagraphs" /\ runs = 1) => val = ParagraphsByRule(orig, 1, << >>)

\* C16 witness: the hyphenated word split over two candidates was rejoined
\* at the merge
C16_Witness ==
    /\ fn = "buildParagraphs" /\ runs = 1 /\ orig = <<5, 6>>
    /\ val = <<Para("It sent the Ambassadors home")>>

(***************************************************************************)
(* The harness for dehyphenate: a word, a hyphen with or without spaces,   *)
(* what the line break left in between, and the rest of the word.          *)
(***************************************************************************)
InitHyph ==
    /\ ParseIdle
    /\ ServerIdle
    /\ fn = "dehyphenate"
    /\ arg \in {[before |-> b, hyphen |-> h, between |-> m, after |-> a] :
                     b \in {"Eco", "con", "12", "(a)"},
                     h \in {" - ", "- ", "-", " -", " -  "},
                     m \in {"", "{{fn:2}} ", "{{fn:2}}", "{{fn:2}} {{fn:3}} ", "7 ", "7"},
                     a \in {"nomic", "stitution", "Nomic", "9th", ""}}
    /\ orig = arg.before \o arg.hyphen \o arg.between \o arg.after
    /\ val = orig
    /\ runs = 0

\* the candidate text is de-hyphenated (buildParagraphs)
ApplyDehyphenate ==
    /\ fn = "dehyphenate"
    /\ runs = 0
    /\ val' = dehyphenate(val)
    /\ runs' = 1
    /\ UNCHANGED <<fn, orig, arg, parseVars, serverVars>>

SpecHyph == InitHyph /\ [][ApplyDehyphenate]_vars

Dehyphenated == fn = "dehyphenate" /\ runs = 1

\* the hyphen is followed by whitespace and the rest starts in lower case
BreaksWord(h) ==
    /\ h.hyphen \in {" - ", "- ", " -  "}
    /\ h.after # "" /\ Ch(h.after, 1) \in Lower

\* the word before the hyphen ends in a letter or a digit
AfterWord(h) == Ch(h.before, Len(h.before)) \in WordCh

\* C17: dehyphenate removes a hyphen only when it is followed by whitespace
\* and then a lowercase letter, with at most one {{fn:N}} marker in between,
\* which moves behind the rejoined word ("Eco - nomic" -> "Economic",
\* "con- stitution" -> "constitution", "Eco - {{fn:2}} nomic" ->
\* "Economic{{fn:2}}"); a hyphen without whitespace around it or followed by
\* an uppercase letter is left unchanged
C17_HyphenOnlyBeforeLowercase ==
    Dehyphenated =>
        /\ val # orig => (BreaksWord(arg) /\ arg.between \in {"", "{{fn:2}} "})
        /\ (BreaksWord(arg) /\ AfterWord(arg) /\ arg.between = "")
               => val = arg.before \o arg.after
        /\ (BreaksWord(arg) /\ AfterWord(arg) /\ arg.between = "{{fn:2}} ")
               => val = arg.before \o arg.after \o "{{fn:2}}"
        /\ (arg.hyphen = "-" \/ arg.after = "Nomic") => val = orig

\* C17 as the code has it: a bare footnote number between the hyphen and the
\* lowercase rest is a third case, in which the word is rejoined and the
\* number dropped
C17_HyphenBeforeLowercaseOrNumber ==
    Dehyphenated =>
        /\ val # orig => (BreaksWord(arg) /\ arg.between \in {"", "{{fn:2}} ", "7 "})
        /\ (BreaksWord(arg) /\ AfterWord(arg) /\ arg.between \in {"", "7 "})
               => val = arg.before \o arg.after
        /\ (BreaksWord(arg) /\ AfterWord(arg) /\ arg.between = "{{fn:2}} ")
               => val = arg.before \o arg.after \o "{{fn:2}}"
        /\ (arg.hyphen = "-" \/ arg.after = "Nomic") => val = orig

\* C17 witness: the word broken around a footnote marker was rejoined and
\* the marker moved behind it
C17_Witness ==
    /\ Dehyphenated /\ orig = "Eco - {{fn:2}} nomic" /\ val = "Economic{{fn:2}}"

(***************************************************************************)
(* parsePdf: the pages and their aggregation into chapters. A page enters  *)
(* as the result of the layout pass: the text of its header band, its body *)
(* lines, its footnote map (in insertion order) and its continuation text. *)
(***************************************************************************)
MaxPages == 3

DigitStr(n) == Ch("0123456789", n + 1)

Note(id, n) == [id |-> id, text |-> "Note " \o DigitStr(id) \o " of page " \o DigitStr(n) \o "."]

\* the text carried over from the last footnote of the page before
Carried(n) == "carried to page " \o DigitStr(n) \o "."

\* the kinds of page a document is made of here, for page number n
PageKinds(n) ==
    LET d == DigitStr(n)
    IN {[headerText |-> "Syllabus",
         bodyLines |-> <<"Syllabus body " \o d \o " ends.">>,
         footnotes |-> << >>, footnoteContinuation |-> ""],
        [headerText |-> "Opinion of the Court",
         bodyLines |-> <<"More opinion body " \o d \o "{{fn:2}} goes on.", "",
                         "Last opinion body " \o d \o "{{fn:1}} ends.">>,
         footnotes |-> <<Note(2, n), Note(1, n)>>, footnoteContinuation |-> Carried(n)],
        [headerText |-> "SMITH v. JONES",
         bodyLines |-> <<"Plain body " \o d \o "{{fn:1}} ends.">>,
         footnotes |-> <<Note(1, n)>>, footnoteContinuation |-> ""],
        [headerText |-> "",
         bodyLines |-> << >>,
         footnotes |-> <<Note(3, n)>>, footnoteContinuation |-> Carried(n)],
        [headerText |-> "T HOMAS , J., dissenting",
         bodyLines |-> << >>,
         footnotes |-> <<Note(1, n)>>, footnoteContinuation |-> ""]}

RECURSIVE Join(_, _)
\* Array.prototype.join
Join(arr, sep) ==
    IF arr = << >> THEN ""
    ELSE IF Len(arr) = 1 THEN arr[1]
    ELSE arr[1] \o sep \o Join(Tail(arr), sep)

\* header && (!currentHeader || header.id !== currentHeader.id)
StartsChapter(header, current) ==
    header # NullHeader /\ (current = NullHeader \/ header.id # current.id)

ChapterData(header, lines, footnotes) ==
    [header |-> header, text |-> Join(lines, "\n"), footnotes |-> footnotes]

\* a header change that pushes no preamble chapter
FlushOnChange_NoPreamble(datas, current, lines, footnotes) ==
    IF current # NullHeader THEN Append(datas, ChapterData(current, lines, footnotes))
    ELSE datas

\* the pushes of the "New chapter" branch
FlushOnChange(datas, current, lines, footnotes) ==
    IF current # NullHeader THEN Append(datas, ChapterData(current, lines, footnotes))
    ELSE IF Len(lines) > 0
    THEN Append(datas, ChapterData([raw |-> "Preamble", normalized |-> "Preamble", id |-> "preamble",
                                      title |-> "Preamble", author |-> Null],
                                     lines, footnotes))
    ELSE datas

\* Map.prototype.get; Null when the key is absent
MapGet(map, id) ==
    IF \E k \in 1..Len(map) : map[k].id = id
    THEN map[CHOOSE k \in 1..Len(map) : map[k].id = id].text
    ELSE Null

\* Map.prototype.set: a present key keeps its place, a new key goes last
MapSet(map, id, text) ==
    IF \E k \in 1..Len(map) : map[k].id = id
    THEN [k \in 1..Len(map) |-> IF map[k].id = id THEN [id |-> id, text |-> text] ELSE map[k]]
    ELSE Append(map, [id |-> id, text |-> text])

\* the largest key of the map, 0 for an empty map
MaxId(map) ==
    IF map = << >> THEN 0
    ELSE CHOOSE m \in {map[k].id : k \in 1..Len(map)} :
             \A k \in 1..Len(map) : map[k].id <= m

\* the continuation text goes to the footnote with the largest id, if any
MergeContinuation(footnotes, continuation) ==
    LET maxId == MaxId(footnotes)
        existing == MapGet(footnotes, maxId)
    IN IF continuation # "" /\ maxId > 0
       THEN MapSet(footnotes, maxId, Trim(existing \o " " \o continuation))
       ELSE footnotes

RECURSIVE MergePageFootnotes(_, _, _)
\* for (const [id, text] of page.footnotes), from the n-th entry on
MergePageFootnotes(footnotes, pageFootnotes, n) ==
    IF n > Len(pageFootnotes) THEN footnotes
    ELSE LET id == pageFootnotes[n].id
             text == pageFootnotes[n].text
             existing == MapGet(footnotes, id)
         IN MergePageFootnotes(
                IF existing # Null /\ existing # ""
                THEN MapSet(footnotes, id, existing \o " " \o text)
                ELSE MapSet(footnotes, id, text),
                pageFootnotes, n + 1)

\* the page's own entries merged before its continuation text
MergeFootnotes_OwnFirst(footnotes, page) ==
    MergeContinuation(MergePageFootnotes(footnotes, page.footnotes, 1),
                      page.footnoteContinuation)

\* the two footnote steps of the loop body, in the order of the code
MergeFootnotes(footnotes, page) ==
    MergePageFootnotes(MergeContinuation(footnotes, page.footnoteContinuation),
                       page.footnotes, 1)

\* the lines of the open chapter that never start afresh
LinesAfter_NoReset(starts, lines, page) == lines \o page.bodyLines

\* currentLines after the page: emptied by a new chapter, then extended
LinesAfter(starts, lines, page) ==
    (IF starts THEN << >> ELSE lines) \o page.bodyLines

\* a final flush that never happens
FinalFlush_Never(datas, current, lines, footnotes) == datas

\* "Save last chapter"
FinalFlush(datas, current, lines, footnotes) ==
    IF current # NullHeader /\ Len(lines) > 0
    THEN Append(datas, ChapterData(current, lines, footnotes))
    ELSE datas

\* the footnote entries left in insertion order
SortFootnotes_Unsorted(entries) == entries

\* footnotes.sort((a, b) => a.id - b.id), for the pairwise distinct keys of a map
SortFootnotes(entries) ==
    LET Rank(k) == Cardinality({j \in 1..Len(entries) : entries[j].id < entries[k].id}) + 1
    IN [r \in 1..Len(entries) |-> entries[CHOOSE k \in 1..Len(entries) : Rank(k) = r]]

\* chapterDatas.map(...)
BuildChapter(cd) ==
    [id |-> cd.header.id, title |-> cd.header.title, author |-> cd.header.author,
     paragraphs |-> tagBoilerplate(buildParagraphs(cd.text)),
     footnotes |-> SortFootnotes([k \in 1..Len(cd.footnotes) |->
                       [id |-> cd.footnotes[k].id, text |-> dehyphenate(cd.footnotes[k].text)]])]

\* pages.map((p) => p.bodyLines.join('\n')).join('\n\n')

\* "If no chapters, single opinion"
OpinionChapter(pgs) ==
    [id |-> "opinion", title |-> "Opinion", author |-> Null,
     paragraphs |-> buildParagraphs(Join([k \in 1..Len(pgs) |-> Join(pgs[k].bodyLines, "\n")],
                                          "\n\n")), footnotes |-> << >>]

(***************************************************************************)
(* parsePdf: the layout pass over the text runs of one page. Coordinates   *)
(* and font sizes are numbers in tenths of a unit (7004 is 700.4), so that *)
(* the sub-integer part that Math.round decides on is kept.                *)
(***************************************************************************)
\* Math.round: halves go up
Round(v) == ((v + 5) \div 10) * 10

\* Math.abs
Abs(v) == IF v < 0 THEN 0 - v ELSE v

RECURSIVE SortItems(_)
\* bodyItems.sort: by rounded y descending, then by x ascending; the sort is
\* stable, so runs that compare equal keep their order
SortItems(items) ==
    IF items = << >> THEN << >>
    ELSE LET Before(a, b) == \/ Round(a.y) > Round(b.y)
                             \/ Round(a.y) = Round(b.y) /\ a.x < b.x
             Place(sorted, it, n) ==
                 SubSeq(sorted, 1, n) \o <<it>> \o SubSeq(sorted, n + 1, Len(sorted))
             Insert(sorted, it) ==
                 Place(sorted, it,
                       Cardinality({j \in 1..Len(sorted) : ~Before(it, sorted[j])}))
         IN Insert(SortItems(SubSeq(items, 1, Len(items) - 1)), items[Len(items)])

\* isSuperRef / isSuperscriptRef: a footnote reference in the body text
IsSuperscriptRef(item, bodyFS, separatorY) ==
    /\ separatorY < 0 \/ item.y > separatorY + 20
    /\ TestAt1(<<Cls(Digit, 1, 2), End>>, Trim(item.text))
    /\ bodyFS > 0
    /\ item.fontSize < bodyFS - 25

RECURSIVE SnapSuperscripts(_, _, _, _)
\* the loop that snaps floating footnote references to the nearest body
\* text run, from the run idx on
SnapSuperscripts(bodyItems, idx, bodyFS, separatorY) ==
    IF idx > Len(bodyItems) THEN bodyItems
    ELSE LET item == bodyItems[idx]
             \* the runs j of the window that are not small numbers themselves
             others == {j \in 1..Len(bodyItems) :
                            /\ j >= idx - 10 /\ j < idx + 10 /\ j # idx
                            /\ ~(/\ TestAt1(<<Cls(Digit, 1, 2), End>>, Trim(bodyItems[j].text))
                                 /\ bodyItems[j].fontSize < bodyFS - 25)}
             onBodyLine == \E j \in others :
                               Abs(Round(bodyItems[j].y) - Round(item.y)) <= 20
             Dist(j) == Abs(bodyItems[j].y - item.y)
             \* the first of the nearest runs
             nearest == CHOOSE j \in others :
                            /\ \A o \in others : Dist(j) <= Dist(o)
                            /\ \A o \in others : Dist(o) = Dist(j) => j <= o
             Go(next) == SnapSuperscripts(next, idx + 1, bodyFS, separatorY)
         IN Go(IF ~IsSuperscriptRef(item, bodyFS, separatorY) \/ onBodyLine \/ others = {}
               THEN bodyItems
               ELSE [bodyItems EXCEPT ![idx].y = bodyItems[nearest].y])

RECURSIVE TextLines(_, _, _, _, _)
\* The loop that groups the runs from the n-th on into text lines; st holds
\* the locals of the loop (curText, curStartX, lastY, lastFontSize, fsSum,
\* fsCount) and the lines pushed so far. The average font size of a line is
\* kept as the sum and the count it is the quotient of.
TextLines(bodyItems, n, bodyFS, separatorY, st) ==
    LET \* `{{fn:${trimmedItem}}}`
        Marker(t) == "{{fn:" \o t \o "}}"
        Pushed(s) ==
            IF Trim(s.curText) # ""
            THEN Append(s.textLines, [text |-> Trim(s.curText), fsSum |-> s.fsSum,
                                      fsCount |-> s.fsCount, startX |-> s.curStartX])
            ELSE s.textLines
        EndsWithCapital(t) == t # "" /\ Ch(t, Len(t)) \in Upper
        EndsWithSpace(t) == t # "" /\ Ch(t, Len(t)) = " "
        Step(item, trimmedItem, isSuperscriptRef) ==
            IF st.lastY >= 0 /\ Abs(item.y - st.lastY) > 20
            THEN \* new line
                 [textLines |-> Pushed(st),
                  curText |-> IF isSuperscriptRef THEN Marker(trimmedItem) ELSE item.text,
                  curStartX |-> item.x, fsSum |-> item.fontSize, fsCount |-> 1,
                  lastY |-> item.y, lastFontSize |-> item.fontSize]
            ELSE \* same line
                 [textLines |-> st.textLines,
                  curText |->
                      IF isSuperscriptRef THEN st.curText \o Marker(trimmedItem)
                      ELSE IF /\ trimmedItem # ""
                              /\ TestAt1(<<Plus(Upper), End>>, trimmedItem)
                              /\ item.fontSize < st.lastFontSize - 5
                              /\ st.curText # ""
                              /\ EndsWithCapital(st.curText)
                      THEN \* small-cap continuation
                           st.curText \o trimmedItem
                      ELSE st.curText
                           \o (IF st.curText # "" /\ ~EndsWithSpace(st.curText)
                               THEN " " ELSE "")
                           \o item.text,
                  \* set in the last branch only, and small caps need a curText
                  curStartX |-> IF ~isSuperscriptRef /\ st.curText = ""
                                THEN item.x ELSE st.curStartX,
                  fsSum |-> st.fsSum + item.fontSize, fsCount |-> st.fsCount + 1,
                  lastY |-> item.y, lastFontSize |-> item.fontSize]
        Go(next) == TextLines(bodyItems, n + 1, bodyFS, separatorY, next)
    IN IF n > Len(bodyItems) THEN Pushed(st)
       ELSE Go(Step(bodyItems[n], Trim(bodyItems[n].text),
                    IsSuperscriptRef(bodyItems[n], bodyFS, separatorY)))

\* heading detection that tries the single capital letter before the Roman
\* numeral
HeadingMarker_LetterFirst(trimmed) ==
    IF TestAt1(<<One(Upper), End>>, trimmed) THEN "{{h2:" \o trimmed \o "}}"
    ELSE IF FirstAlt(<<<<Cls({"I"}, 1, 4), Opt({"V"}), End>>,
                       <<Lit("V"), Cls({"I"}, 0, 3), End>>,
                       <<Lit("IX"), End>>,
                       <<Cls({"X"}, 0, 3), End>>>>, 1, trimmed, 1) # NoMatch
    THEN "{{h1:" \o trimmed \o "}}"
    ELSE IF TestAt1(<<Cls(Digit, 1, 2), End>>, trimmed) THEN "{{h3:" \o trimmed \o "}}"
    ELSE Null

\* the heading marker of a centered line, Null when it is not a heading
HeadingMarker(trimmed) ==
    IF \* /^(I{1,4}V?|VI{0,3}|IX|X{0,3})$/
       FirstAlt(<<<<Cls({"I"}, 1, 4), Opt({"V"}), End>>,
                  <<Lit("V"), Cls({"I"}, 0, 3), End>>,
                  <<Lit("IX"), End>>,
                  <<Cls({"X"}, 0, 3), End>>>>, 1, trimmed, 1) # NoMatch
    THEN "{{h1:" \o trimmed \o "}}"
    ELSE IF TestAt1(<<One(Upper), End>>, trimmed) THEN "{{h2:" \o trimmed \o "}}"
    ELSE IF TestAt1(<<Cls(Digit, 1, 2), End>>, trimmed) THEN "{{h3:" \o trimmed \o "}}"
    ELSE Null

RECURSIVE BodyLines(_, _, _, _, _, _)
\* the loop over the lines li..bodyEnd above the separator
BodyLines(textLines, li, bodyEnd, bodyFS, bodyLeftMargin, bodyLines) ==
    IF li > bodyEnd THEN bodyLines
    ELSE LET line == textLines[li]
             indent == line.startX - bodyLeftMargin
             \* Math.abs(line.avgFontSize - bodyFS) < 1.5
             isBodyFont == Abs(line.fsSum - bodyFS * line.fsCount) < 15 * line.fsCount
             isCentered == bodyLeftMargin > 0 /\ indent > 500 /\ isBodyFont
             isParagraphIndent ==
                 bodyLeftMargin > 0 /\ indent > 50 /\ indent < 500 /\ isBodyFont
             Go(next) == BodyLines(textLines, li + 1, bodyEnd, bodyFS, bodyLeftMargin, next)
         IN Go(IF isCentered /\ HeadingMarker(Trim(line.text)) # Null
               THEN bodyLines \o <<"", HeadingMarker(Trim(line.text)), "">>
               ELSE IF isParagraphIndent /\ Len(bodyLines) > 0
               THEN bodyLines \o <<"", line.text>>
               ELSE Append(bodyLines, line.text))

RECURSIVE FootnoteBlock(_, _, _, _)
\* The loop over the lines from li on, below the separator; st holds fnId,
\* fnText, the footnotes set so far and footnoteContinuation
FootnoteBlock(textLines, li, bodyFS, st) ==
    LET \* if (fnId > 0) footnotes.set(fnId, fnText.trim())
        Saved(s) == IF s.fnId > 0 THEN MapSet(s.footnotes, s.fnId, Trim(s.fnText))
                    ELSE s.footnotes
        DigitValue(c) == CHOOSE d \in 0..9 : DigitStr(d) = c
        \* parseInt of one or two digits
        ParseInt(t) == IF Len(t) = 1 THEN DigitValue(t)
                       ELSE 10 * DigitValue(Ch(t, 1)) + DigitValue(Ch(t, 2))
        Step(line, trimmed) ==
            IF TestAt1(<<Cls(Digit, 1, 2), End>>, trimmed) /\ line.fsSum < (bodyFS - 30) * line.fsCount
            THEN [st EXCEPT !.footnotes = Saved(st), !.fnId = ParseInt(trimmed),
                            !.fnText = ""]
            ELSE IF TestAt1(<<Lit(EmDash), Plus({EmDash}), End>>, trimmed) THEN st
            ELSE IF st.fnId > 0 THEN [st EXCEPT !.fnText = @ \o " " \o trimmed]
            ELSE [st EXCEPT !.footnoteContinuation = @ \o " " \o trimmed]
        Go(next) == FootnoteBlock(textLines, li + 1, bodyFS, next)
    IN IF li > Len(textLines)
       THEN [footnotes |-> Saved(st), footnoteContinuation |-> Trim(st.footnoteContinuation)]
       ELSE Go(Step(textLines[li], Trim(textLines[li].text)))

\* One iteration of the page loop of parsePdf for the runs allItems of a page
\* of the given height: the page pushed (headerText stands for the section
\* header parsed from it) and the locals the properties refer to
LayoutPage(allItems, pageHeight) ==
    LET \* the separator line, the margin, the body lines and the footnotes
        Parts(headerText, bodyItems, bodyFS, separatorY, textLines, bodyLeftMargin,
              separatorIdx, notes) ==
            [headerText |-> headerText, bodyItems |-> bodyItems, bodyFS |-> bodyFS,
             separatorY |-> separatorY, textLines |-> textLines,
             bodyLeftMargin |-> bodyLeftMargin,
             bodyLines |-> BodyLines(textLines, 1,
                                     IF separatorIdx > 0 THEN separatorIdx - 1
                                     ELSE Len(textLines),
                                     bodyFS, bodyLeftMargin, << >>),
             footnotes |-> notes.footnotes,
             footnoteContinuation |-> notes.footnoteContinuation]
        \* the footnotes of the lines after the separator
        Notes(textLines, bodyFS, separatorIdx) ==
            IF separatorIdx = 0 THEN [footnotes |-> << >>, footnoteContinuation |-> ""]
            ELSE FootnoteBlock(textLines, separatorIdx + 1, bodyFS,
                               [fnId |-> 0, fnText |-> "", footnotes |-> << >>,
                                footnoteContinuation |-> ""])
        Separate(headerText, bodyItems, bodyFS, separatorY, textLines, bodyLeftMargin,
                 separatorIdx) ==
            Parts(headerText, bodyItems, bodyFS, separatorY, textLines, bodyLeftMargin,
                  separatorIdx, Notes(textLines, bodyFS, separatorIdx))
        \* the most common rounded startX of the lines in body font (the
        \* first of them in line order), 0 when there is none
        BodyLeftMargin(textLines, bodyFS) ==
            LET body == {k \in 1..Len(textLines) :
                             /\ textLines[k].fsSum > 0
                             /\ bodyFS > 0
                             /\ textLines[k].fsSum >= (bodyFS - 10) * textLines[k].fsCount}
                X(k) == Round(textLines[k].startX)
                Freq(x) == Cardinality({k \in body : X(k) = x})
                FirstAt(x) == CHOOSE k \in body : X(k) = x /\ \A j \in body : X(j) = x => k <= j
                most == {x \in {X(k) : k \in body} : \A k \in body : Freq(X(k)) <= Freq(x)}
            IN IF most = {} THEN 0
               ELSE CHOOSE x \in most : \A o \in most : FirstAt(x) <= FirstAt(o)
        \* the index of the first line of em-dashes in a smaller font, 0 when
        \* there is none
        SeparatorIdx(textLines, bodyFS) ==
            LET seps == {k \in 1..Len(textLines) :
                             /\ TestAt1(<<Lit(EmDash), Plus({EmDash}), End>>,
                                        Trim(textLines[k].text))
                             /\ textLines[k].fsSum > 0
                             /\ bodyFS > 0
                             /\ textLines[k].fsSum < (bodyFS - 10) * textLines[k].fsCount}
            IN IF seps = {} THEN 0 ELSE CHOOSE k \in seps : \A j \in seps : k <= j
        Lines(headerText, bodyItems, bodyFS, separatorY, textLines) ==
            Separate(headerText, bodyItems, bodyFS, separatorY, textLines,
                     BodyLeftMargin(textLines, bodyFS), SeparatorIdx(textLines, bodyFS))
        \* the runs are snapped, sorted again and grouped into lines
        Snapped(headerText, bodyItems, bodyFS, separatorY) ==
            Lines(headerText, bodyItems, bodyFS, separatorY,
                  TextLines(bodyItems, 1, bodyFS, separatorY,
                            [textLines |-> << >>, curText |-> "", curStartX |-> 0,
                             lastY |-> -1, lastFontSize |-> 0, fsSum |-> 0, fsCount |-> 0]))
        Separated(headerText, bodyItems, bodyFS, separatorY) ==
            Snapped(headerText,
                    SortItems(SnapSuperscripts(bodyItems, 1, bodyFS, separatorY)),
                    bodyFS, separatorY)
        \* the y of the first run of em-dashes in a font smaller than the body
        \* font, -1 when there is none
        SeparatorY(bodyItems, bodyFS) ==
            LET seps == {k \in 1..Len(bodyItems) :
                             /\ TestAt1(<<Lit(EmDash), Plus({EmDash}), End>>,
                                        Trim(bodyItems[k].text))
                             /\ bodyFS > 0
                             /\ bodyItems[k].fontSize < bodyFS - 10}
            IN IF seps = {} THEN -1
               ELSE bodyItems[CHOOSE k \in seps : \A j \in seps : k <= j].y
        Sized(headerText, bodyItems, bodyFS) ==
            Separated(headerText, bodyItems, bodyFS, SeparatorY(bodyItems, bodyFS))
        \* the dominant body font size: the largest rounded size that at
        \* least 5 runs have, else the most frequent one (the first of them
        \* in run order)
        BodyFS(bodyItems) ==
            LET Size(k) == Round(bodyItems[k].fontSize)
                sizes == {Size(k) : k \in 1..Len(bodyItems)}
                Freq(fs) == Cardinality({k \in 1..Len(bodyItems) : Size(k) = fs})
                FirstAt(fs) == CHOOSE k \in 1..Len(bodyItems) :
                                   Size(k) = fs /\ \A j \in 1..(k - 1) : Size(j) # fs
                frequent == {fs \in sizes : Freq(fs) >= 5 /\ fs > 0}
                most == {fs \in sizes : \A o \in sizes : Freq(o) <= Freq(fs)}
            IN IF frequent # {} THEN CHOOSE fs \in frequent : \A o \in frequent : o <= fs
               ELSE IF most = {} THEN 0
               ELSE CHOOSE fs \in most : \A o \in most : FirstAt(fs) <= FirstAt(o)
        Sorted(headerText, bodyItems) == Sized(headerText, bodyItems, BodyFS(bodyItems))
        \* the header band: pageHeight * 0.80 <= y <= pageHeight * 0.84
        InHeaderBand(it) == 100 * it.y >= 80 * pageHeight /\ 100 * it.y <= 84 * pageHeight
        ByX(items) == SortItems([k \in 1..Len(items) |-> [items[k] EXCEPT !.y = 0]])
        HeaderOf(headerItems) ==
            Join([k \in 1..Len(headerItems) |-> Trim(headerItems[k].text)], " ")
        \* the body: below the header band and above the footer, without the
        \* "Cite as:" line, lone page numbers and "(Slip Opinion)" of the top row
        InBody(it) ==
            /\ 100 * it.y < 80 * pageHeight
            /\ it.y >= 600
            /\ it.y > pageHeight - 600 =>
                   /\ ~TestAt1(<<Lit("Cite as:")>>, Trim(it.text))
                   /\ ~TestAt1(<<Plus(Digit), End>>, Trim(it.text))
                   /\ ~TestAt1(<<Lit("(Slip Opinion)")>>, Trim(it.text))
        NonBlank(it) == Trim(it.text) # ""
        Items(items) == Sorted(HeaderOf(ByX(SelectSeq(items, InHeaderBand))),
                               SortItems(SelectSeq(items, InBody)))
    IN Items(SelectSeq(allItems, NonBlank))

(***************************************************************************)
(* The harness of the layout pass: a page with a header, five body lines   *)
(* and some of the runs that the properties are about.                     *)
(***************************************************************************)
MaxExtraItems == 3

InitLayout ==
    LET Run(y, x, text, fontSize) == [y |-> y, x |-> x, text |-> text, fontSize |-> fontSize]
        base == <<Run(6500, 2500, "Syllabus", 110),
                  Run(6004, 720, "The Court held", 110),
                  Run(5860, 720, "that it was so.", 110),
                  Run(4700, 720, "It went on to say", 110),
                  Run(4560, 720, "that the rule applies", 110),
                  Run(4420, 720, "in every such case.", 110)>>
        extras == <<\* footnote references: between two lines, and on a line
                    Run(6044, 1500, "3", 60),
                    Run(6006, 1600, "2", 60),
                    \* the separator, and a reference just above it
                    Run(2000, 720, Repeat(EmDash, 6), 90),
                    Run(2100, 720, "4", 60),
                    \* the footnote block
                    Run(1950, 720, "carried over.", 90),
                    Run(1900, 720, "1", 60),
                    Run(1800, 720, "See ante, at 3.", 90),
                    Run(1700, 720, "0", 60),
                    Run(1600, 720, "and more.", 90),
                    \* runs on the first body line: 600.6 and 600.3 next to 600.4
                    Run(6006, 3000, "today", 110),
                    Run(6003, 3300, "again", 110),
                    \* centered and indented lines
                    Run(5500, 3000, "I", 110),
                    Run(5400, 3000, "A", 110),
                    Run(5300, 3000, "2", 110),
                    Run(5200, 3000, "XI", 110),
                    Run(5100, 900, "V", 110),
                    Run(5000, 3000, "X", 90)>>
        Nth(S, k) == CHOOSE i \in S : Cardinality({j \in S : j < i}) = k - 1
        Chosen(S) == [k \in 1..Cardinality(S) |-> extras[Nth(S, k)]]
    IN /\ ParseIdle
       /\ ServerIdle
       /\ fn = "layoutPage"
       /\ \E S \in SUBSET (1..Len(extras)) :
              /\ Cardinality(S) <= MaxExtraItems
              /\ arg = base \o Chosen(S)
       /\ orig = ""
       /\ val = Null
       /\ runs = 0

\* one iteration of the page loop, for a page 792 units high
ApplyLayout ==
    /\ fn = "layoutPage"
    /\ runs = 0
    /\ val' = LayoutPage(arg, 7920)
    /\ runs' = 1
    /\ UNCHANGED <<fn, arg, orig, parseVars, serverVars>>

SpecLayout == InitLayout /\ [][ApplyLayout]_vars

(***************************************************************************)
(* The court calendar. A Date is its number of minutes since the epoch,    *)
(* which is all that the window needs; months count from 0 as in Date.     *)
(***************************************************************************)
\* Date.UTC(year, month, day, hours, minutes): day may run past the month
UTC(year, month, day, hours, minutes) ==
    LET y == IF month + 1 <= 2 THEN year - 1 ELSE year
        yoe == y % 400
        doy == (153 * (IF month + 1 > 2 THEN month - 2 ELSE month + 10) + 2) \div 5
        doe == yoe * 365 + yoe \div 4 - yoe \div 100 + doy
    IN (((y \div 400) * 146097 + doe - 719468) + (day - 1)) * 1440 + hours * 60 + minutes

\* getUTCFullYear, getUTCMonth, getUTCDate, getUTCDay, getUTCHours and
\* getUTCMinutes of a Date
UTCFields(date) ==
    LET days == date \div 1440
        z == days + 719468
        doe == z % 146097
        yoe == (doe - doe \div 1460 + doe \div 36524 - doe \div 146096) \div 365
        doy == doe - (365 * yoe + yoe \div 4 - yoe \div 100)
        mp == (5 * doy + 2) \div 153
        m == IF mp < 10 THEN mp + 3 ELSE mp - 9
    IN [year |-> yoe + (z \div 146097) * 400 + (IF m <= 2 THEN 1 ELSE 0),
        month |-> m - 1,
        dayOfMonth |-> doy - (153 * mp + 2) \div 5 + 1,
        day |-> (days + 4) % 7,
        hours |-> (date % 1440) \div 60,
        minutes |-> date % 60]

\* Convert a Date to Eastern Time
toEasternTime(date) ==
    LET year == UTCFields(date).year
        \* the number of days from the 1st of the month to its first Sunday
        FirstSun(month) == (7 - UTCFields(UTC(year, month, 1, 0, 0)).day) % 7
        isEDT == /\ date >= UTC(year, 2, 1 + FirstSun(2) + 7, 7, 0)
                 /\ date < UTC(year, 10, 1 + FirstSun(10), 6, 0)
        et == UTCFields(date + (IF isEDT THEN -4 ELSE -5) * 60)
    IN [hours |-> et.hours, minutes |-> et.minutes, dayOfMonth |-> et.dayOfMonth,
        month |-> et.month, year |-> et.year]

RECURSIVE Number(_)
\* Number(text) of a run of digits
Number(t) ==
    IF t = "" THEN 0
    ELSE 10 * Number(SubSeq(t, 1, Len(t) - 1))
         + (CHOOSE d \in 0..9 : Ch("0123456789", d + 1) = Ch(t, Len(t)))

RECURSIVE ConferenceEntries(_, _, _)
\* the loop over the entries of the array text from index i on: the days
\* pushed for the entries whose label has "conference" in it
ConferenceEntries(text, i, days) ==
    LET \* /\[\s*(\d{4})\s*,\s*(\d{1,2})\s*,\s*(\d{1,2})\s*,\s*"([^"]+)"\s*\]/g
        entryRegex == <<Lit("["), Star(SpaceCh), Cls(Digit, 4, 4), Star(SpaceCh),
                        Lit(","), Star(SpaceCh), Cls(Digit, 1, 2), Star(SpaceCh),
                        Lit(","), Star(SpaceCh), Cls(Digit, 1, 2), Star(SpaceCh),
                        Lit(","), Star(SpaceCh), Lit("\""), NCls({"\""}, 1, -1),
                        Lit("\""), Star(SpaceCh), Lit("]")>>
        Entry(entryMatch) ==
            IF entryMatch = NoMatch THEN days
            ELSE ConferenceEntries(
                     text, MatchEnd(entryMatch),
                     IF Test(<<Lit("conference")>>,
                             ToLowerCase(Group(text, entryMatch, 16, 16)))
                     THEN Append(days, Number(Group(text, entryMatch, 11, 11)))
                     ELSE days)
    IN Entry(Search(entryRegex, text, i))

\* Parse the specialDaysArray from the homepage: the day-of-month numbers of
\* the conference days
parseConferenceDays(html) ==
    LET \* /(?:specialDaysArray|defined)\s*=\s*\[(\[[\s\S]*?\])\s*\]/
        Days(match) ==
            IF match = NoMatch THEN << >>
            ELSE ConferenceEntries(Group(html, match, 6, 8), 1, << >>)
    IN Days(Search(<<Alt(<<<<Lit("specialDaysArray")>>, <<Lit("defined")>>>>),
                     Star(SpaceCh), Lit("="), Star(SpaceCh), Lit("["),
                     Lit("["), Lazy(NCls({}, 0, -1)), Lit("]"),
                     Star(SpaceCh), Lit("]")>>, html, 1))

\* The conference days for the date: from the blob of the day when there is
\* one, else scraped from the homepage and stored. blobs is the blob store
\* (a map from keys to conference days), up says whether the store answers,
\* and site is the answer of the homepage: "throws", "notok" or its text.
\* Gives the days and the blob store afterwards.
getConferenceDays(date, blobs, up, site) ==
    LET et == toEasternTime(date)
        \* the key holds year, month + 1 and day
        blobKey == <<et.year, et.month + 1, et.dayOfMonth>>
        Stored(conferenceDays) ==
            [conferenceDays |-> conferenceDays,
             blobs |-> IF up THEN MapSet(blobs, blobKey, conferenceDays) ELSE blobs]
    IN IF up /\ MapGet(blobs, blobKey) # Null
       THEN [conferenceDays |-> MapGet(blobs, blobKey), blobs |-> blobs]
       ELSE IF site \in {"throws", "notok"} THEN [conferenceDays |-> << >>, blobs |-> blobs]
       ELSE Stored(parseConferenceDays(site))

\* Whether the date is a conference day at 9:55am-12:30pm ET: the answer and
\* the blob store afterwards
isConferenceWindow(date, blobs, up, site) ==
    LET et == toEasternTime(date)
        minutesSinceMidnight == et.hours * 60 + et.minutes
        Answer(got) ==
            [result |-> \E k \in 1..Len(got.conferenceDays) :
                            got.conferenceDays[k] = et.dayOfMonth,
             blobs |-> got.blobs]
    IN IF minutesSinceMidnight < 9 * 60 + 55 \/ minutesSinceMidnight >= 12 * 60 + 30
       THEN [result |-> FALSE, blobs |-> blobs]
       ELSE Answer(getConferenceDays(date, blobs, up, site))

(***************************************************************************)
(* The harness of the calendar: a call of isConferenceWindow at some time  *)
(* while the homepage shows a calendar of at most MaxEntries entries and   *)
(* the blob store holds what an earlier call of the day has left there.    *)
(***************************************************************************)
MaxEntries == 2

RECURSIVE NumStr(_)
\* the decimal digits of a number
NumStr(n) == IF n < 10 THEN DigitStr(n) ELSE NumStr(n \div 10) \o DigitStr(n % 10)

InitCalendar ==
    /\ ParseIdle
    /\ ServerIdle
    /\ fn = "isConferenceWindow"
    /\ arg = Null
    /\ val = Null
    \* the blob store: empty, or with the blob of a day
    /\ \E key \in {<<2025, 4, 10>>, <<2025, 4, 14>>, <<2025, 12, 10>>},
          conferenceDays \in {<< >>, <<10>>} :
           orig \in {<< >>, <<[id |-> key, text |-> conferenceDays]>>}
    /\ runs = 0

\* one call of isConferenceWindow(now): arg holds now, the calendar on the
\* homepage and what the call found, orig the blob store, val the answer
CallIsConferenceWindow ==
    LET Entry(year, month, day, label) ==
            [year |-> year, month |-> month, day |-> day, label |-> label]
        pool == <<Entry(2025, 4, 10, "Conference Day"),
                  Entry(2025, 4, 14, "Argument Day"),
                  Entry(2025, 9, 10, "Conference/Non-argument Day"),
                  Entry(2024, 4, 10, "Conference Day")>>
        Nth(S, k) == CHOOSE i \in S : Cardinality({j \in S : j < i}) = k - 1
        Chosen(S) == [k \in 1..Cardinality(S) |-> pool[Nth(S, k)]]
        \* April 10 and 14 (EDT) and December 10 (EST) of 2025
        times == {UTC(2025, 3, 10, 13, 54), UTC(2025, 3, 10, 13, 55),
                  UTC(2025, 3, 10, 16, 29), UTC(2025, 3, 10, 16, 30),
                  UTC(2025, 3, 14, 14, 0), UTC(2025, 11, 10, 15, 0)}
        \* the homepage that embeds the entries of the calendar
        CalendarHtml(entries) ==
            "var defined = ["
                \o Join([k \in 1..Len(entries) |->
                             "[" \o NumStr(entries[k].year) \o "," \o NumStr(entries[k].month)
                                 \o "," \o NumStr(entries[k].day) \o ",\"" \o entries[k].label
                                 \o "\"]"], ",")
                \o "];"
        Call(now, calendar, up, fetch) ==
            LET Done(answer) ==
                    /\ val' = answer.result
                    /\ orig' = answer.blobs
            IN /\ arg' = [now |-> now, calendar |-> calendar, up |-> up, fetch |-> fetch,
                          blobs |-> orig]
               /\ Done(isConferenceWindow(now, orig, up,
                                          IF fetch = "ok" THEN CalendarHtml(calendar)
                                          ELSE fetch))
    IN /\ fn = "isConferenceWindow"
       /\ runs = 0
       /\ runs' = runs + 1
       /\ \E now \in times, S \in SUBSET (1..Len(pool)), up \in BOOLEAN,
             fetch \in {"ok", "notok", "throws"} :
              Cardinality(S) <= MaxEntries /\ Call(now, Chosen(S), up, fetch)
       /\ UNCHANGED <<fn, parseVars, serverVars>>

SpecCalendar == InitCalendar /\ [][CallIsConferenceWindow]_vars

(***************************************************************************)
(* The parse endpoint: GET requests of one server instance. A request      *)
(* runs from one await to the next without interruption; the steps below   *)
(* are those stretches.                                                    *)
(***************************************************************************)
MaxRequests == 3

\* the cache keys of the opinions that are asked for
CacheKeys == {"parsed/24/23-1.json", "parsed/24/23-2.json"}

\* the status of the response for the outcome of the parse promise
StatusOf(outcome) ==
    CASE outcome = "parsed" -> 200
      [] outcome = "PDF_TOO_LARGE" -> 413
      [] outcome = "PDF_FETCH_TIMEOUT" -> 504
      [] OTHER -> 502

InitServer ==
    /\ ParseIdle
    /\ fn = "GET"
    /\ arg = ""
    /\ val = ""
    /\ orig = ""
    /\ runs = 0
    /\ inflight = [k \in CacheKeys |-> 0]
    /\ promises = << >>
    /\ s3 = [k \in CacheKeys |-> [stored |-> FALSE, writes |-> 0]]
    /\ reqs = << >>
    /\ hitStore = << >>
    /\ hitCalls = << >>

\* A request arrives: one without a valid url is answered 400, the others
\* compute the cache key and call getCached. seen is the parse promise of
\* the key that is pending at this moment, 0 when there is none.
Arrive(url) ==
    /\ Len(reqs) < MaxRequests
    /\ reqs' = Append(reqs,
                      IF url \in CacheKeys
                      THEN [pc |-> "getCached", key |-> url, cached |-> FALSE, promise |-> 0,
                            status |-> 0,
                            seen |-> IF inflight[url] # 0
                                        /\ promises[inflight[url]].state = "pending"
                                     THEN inflight[url] ELSE 0]
                      ELSE [pc |-> "done", key |-> url, cached |-> FALSE, promise |-> 0,
                            status |-> 400, seen |-> 0])
    /\ UNCHANGED <<inflight, promises, s3, hitStore, hitCalls, helperVars, parseVars>>

\* getCached reads the object of the key: null when there is none or when
\* the read fails
GetCached(r, fails) ==
    /\ reqs[r].pc = "getCached"
    /\ reqs' = [reqs EXCEPT ![r].pc = "cacheAnswered",
                            ![r].cached = s3[reqs[r].key].stored /\ ~fails]
    /\ UNCHANGED <<inflight, promises, s3, hitStore, hitCalls, helperVars, parseVars>>

\* the request goes on with a cached opinion: it answers with it
CacheHit(r) ==
    /\ reqs[r].pc = "cacheAnswered"
    /\ reqs[r].cached
    /\ reqs' = [reqs EXCEPT ![r].pc = "done", ![r].status = 200]
    /\ UNCHANGED <<inflight, promises, s3, hitStore, hitCalls, helperVars, parseVars>>

\* a miss that starts a fetch-and-parse whether or not one is in flight
CacheMiss_AlwaysStarts(r) ==
    /\ reqs[r].pc = "cacheAnswered"
    /\ ~reqs[r].cached
    /\ promises' = Append(promises, [key |-> reqs[r].key, state |-> "pending",
                                     cleaned |-> FALSE])
    /\ inflight' = [inflight EXCEPT ![reqs[r].key] = Len(promises) + 1]
    /\ reqs' = [reqs EXCEPT ![r].pc = "awaitParse", ![r].promise = Len(promises) + 1]
    /\ UNCHANGED <<s3, hitStore, hitCalls, helperVars, parseVars>>

\* The request goes on without a cached opinion: it takes the promise of
\* the key from inflight, or starts the fetch-and-parse, sets the promise
\* and registers the deletion; then it awaits the promise
CacheMiss(r) ==
    /\ reqs[r].pc = "cacheAnswered"
    /\ ~reqs[r].cached
    /\ IF inflight[reqs[r].key] # 0
       THEN /\ reqs' = [reqs EXCEPT ![r].pc = "awaitParse",
                                    ![r].promise = inflight[reqs[r].key]]
            /\ UNCHANGED <<inflight, promises>>
       ELSE /\ promises' = Append(promises, [key |-> reqs[r].key, state |-> "pending",
                                             cleaned |-> FALSE])
            /\ inflight' = [inflight EXCEPT ![reqs[r].key] = Len(promises) + 1]
            /\ reqs' = [reqs EXCEPT ![r].pc = "awaitParse",
                                    ![r].promise = Len(promises) + 1]
    /\ UNCHANGED <<s3, hitStore, hitCalls, helperVars, parseVars>>

\* the fetch-and-parse of promise p ends: the promise settles
Settle(p, outcome) ==
    /\ promises[p].state = "pending"
    /\ promises' = [promises EXCEPT ![p].state = outcome]
    /\ UNCHANGED <<inflight, s3, reqs, hitStore, hitCalls, helperVars, parseVars>>

\* the callback of finally, the first reaction of the settled promise:
\* inflight.delete(cacheKey)
Finally(p) ==
    /\ promises[p].state # "pending"
    /\ ~promises[p].cleaned
    /\ promises' = [promises EXCEPT ![p].cleaned = TRUE]
    /\ inflight' = [inflight EXCEPT ![promises[p].key] = 0]
    /\ UNCHANGED <<s3, reqs, hitStore, hitCalls, helperVars, parseVars>>

\* The request goes on after its promise: it answers by the outcome and,
\* for a parsed opinion, starts setCache without waiting for it. The
\* finally of the promise was registered before any await, so it runs first.
Resume(r) ==
    LET p == promises[reqs[r].promise]
    IN /\ reqs[r].pc = "awaitParse"
       /\ p.state # "pending"
       /\ p.cleaned
       /\ reqs' = [reqs EXCEPT ![r].pc = "done", ![r].status = StatusOf(p.state)]
       /\ s3' = IF p.state = "parsed" THEN [s3 EXCEPT ![p.key].writes = @ + 1] ELSE s3
       /\ UNCHANGED <<inflight, promises, hitStore, hitCalls, helperVars, parseVars>>

\* a setCache ends: the object is stored, unless the write failed
SetCache(key, fails) ==
    /\ s3[key].writes > 0
    /\ s3' = [s3 EXCEPT ![key].writes = @ - 1, ![key].stored = @ \/ ~fails]
    /\ UNCHANGED <<inflight, promises, reqs, hitStore, hitCalls, helperVars, parseVars>>

\* a parse promise settles with the parsed opinion or with an error
SpecServer ==
    InitServer /\ [][
    \/ \E url \in CacheKeys \cup {"not a url"} : Arrive(url)
    \/ \E r \in 1..Len(reqs), fails \in BOOLEAN : GetCached(r, fails)
    \/ \E r \in 1..Len(reqs) : CacheHit(r)
    \/ \E r \in 1..Len(reqs) : CacheMiss(r)
    \/ \E p \in 1..Len(promises), outcome \in {"parsed", "PDF_TOO_LARGE", "PDF_FETCH_TIMEOUT",
                                                  "Failed to fetch PDF"} : Settle(p, outcome)
    \/ \E p \in 1..Len(promises) : Finally(p)
    \/ \E r \in 1..Len(reqs) : Resume(r)
    \/ \E key \in CacheKeys, fails \in BOOLEAN : SetCache(key, fails)]_vars

(***************************************************************************)
(* The hit endpoints: POST /api/hit and GET /api/popular on the blob       *)
(* store 'hits'. A blob is its data and its etag, which every write        *)
(* renews; etag 0 is a key without a blob. The data of a case key maps     *)
(* dates to counts; dates are day numbers. Every client runs one request   *)
(* at a time, from one await to the next without interruption.             *)
(***************************************************************************)
MaxPosts == 7

MaxGets == 1

maxRetries == 6

POPULAR_CACHE_KEY == "__popular_3d_v1"

CaseKeys == {"24/23-1.pdf"}

Clients == {1, 2}

RECURSIVE TotalSince(_, _)
\* the sum of the counts of the dates from threeDayCutoff on
TotalSince(data, threeDayCutoff) ==
    IF DOMAIN data = {} THEN 0
    ELSE LET d == CHOOSE x \in DOMAIN data : TRUE
             Rest(rest) == TotalSince(rest, threeDayCutoff)
         IN (IF d >= threeDayCutoff THEN data[d] ELSE 0)
            + Rest([x \in DOMAIN data \ {d} |-> data[x]])

\* a client that runs no request, after answering with the status
IdleClient(status) ==
    [pc |-> "idle", kind |-> "", key |-> "", attempt |-> 0,
     existing |-> [data |-> << >>, etag |-> 0], total |-> 0, keys |-> << >>,
     totals |-> << >>, status |-> status]

\* the days of the run (arg): today, the cutoff 7 days back, the cutoff of
\* the 3-day window; the store holds nothing, or the hits of yesterday and
\* of 9 days ago with the popular cache built from them
InitHits ==
    LET today == 10
        old == (1 :> 4) @@ (9 :> 2)
        Blob(data) == [data |-> data, etag |-> 1]
    IN /\ ParseIdle
       /\ fn = "hit"
       /\ arg = [today |-> today, cutoff |-> today - 7, threeDayCutoff |-> today - 3]
       /\ val = [hits |-> [k \in CaseKeys |-> 0], gets |-> 0]
       /\ runs = 0
       /\ orig \in {[k \in CaseKeys \cup {POPULAR_CACHE_KEY} |-> [data |-> << >>, etag |-> 0]],
                    [k \in CaseKeys \cup {POPULAR_CACHE_KEY} |->
                        IF k = POPULAR_CACHE_KEY
                        THEN Blob([windowStart |-> today - 3,
                                   totals |-> [c \in CaseKeys |-> 2]])
                        ELSE Blob(old)]}
       /\ hitStore = orig
       /\ hitCalls = [c \in Clients |-> IdleClient(0)]
       /\ inflight = << >>
       /\ promises = << >>
       /\ s3 = << >>
       /\ reqs = << >>

\* POST /api/hit arrives at a client: 400 without a valid caseKey, else the
\* first attempt of atomicUpdateJson(store, caseKey, ...) begins
StartHit(c, caseKey) ==
    /\ hitCalls[c].pc = "idle"
    /\ runs < MaxPosts
    /\ runs' = runs + 1
    /\ hitCalls' = [hitCalls EXCEPT ![c] =
                        IF caseKey \in CaseKeys
                        THEN [IdleClient(0) EXCEPT !.pc = "read", !.kind = "hit",
                                                   !.key = caseKey]
                        ELSE IdleClient(400)]
    /\ UNCHANGED <<hitStore, fn, arg, val, orig, inflight, promises, s3, reqs, parseVars>>

\* the key that the atomicUpdateJson of the client works on
TargetKey(call) == IF call.kind = "hit" THEN call.key ELSE POPULAR_CACHE_KEY

\* atomicUpdateJson: store.getWithMetadata(key) of an attempt
ReadBlob(c) ==
    /\ hitCalls[c].pc = "read"
    /\ hitCalls' = [hitCalls EXCEPT ![c].pc = "write",
                                    ![c].existing = hitStore[TargetKey(hitCalls[c])]]
    /\ UNCHANGED <<hitStore, helperVars, inflight, promises, s3, reqs, parseVars>>

\* the value that the updater of the call makes of the existing value
NextValue(call, existing, today, cutoff, windowStart) ==
    IF call.kind = "hit"
    THEN \* next[today] = (next[today] || 0) + 1, and the dates before cutoff go
         [d \in {x \in DOMAIN existing \cup {today} : x >= cutoff} |->
              IF d = today
              THEN (IF today \in DOMAIN existing THEN existing[today] ELSE 0) + 1
              ELSE existing[d]]
    ELSE \* the cache of the window, with the total of the case key
         LET totals == IF existing # << >> /\ existing.windowStart = windowStart
                       THEN existing.totals ELSE << >>
         IN [windowStart |-> windowStart,
             totals |-> IF call.total > 0
                        THEN [k \in DOMAIN totals \cup {call.key} |->
                                  IF k = call.key THEN call.total ELSE totals[k]]
                        ELSE [k \in DOMAIN totals \ {call.key} |-> totals[k]]]

\* the write of an attempt, when the store takes it whatever the etag is
WriteBlob_Unconditional(c) ==
    LET call == hitCalls[c]
        nextValue == NextValue(call, call.existing.data, arg.today, arg.cutoff,
                               arg.threeDayCutoff)
    IN /\ call.pc = "write"
       /\ hitStore' = [hitStore EXCEPT ![TargetKey(call)] =
                           [data |-> nextValue, etag |-> @.etag + 1]]
       /\ IF call.kind = "hit"
          THEN /\ hitCalls' = [hitCalls EXCEPT ![c] =
                                   [call EXCEPT !.pc = "read", !.kind = "popular",
                                                !.attempt = 0,
                                                !.total = TotalSince(nextValue,
                                                                     arg.threeDayCutoff),
                                                !.status = 200]]
               /\ val' = [val EXCEPT !.hits[call.key] = @ + 1]
          ELSE /\ hitCalls' = [hitCalls EXCEPT ![c] = IdleClient(call.status)]
               /\ val' = val
       /\ UNCHANGED <<fn, arg, orig, runs, inflight, promises, s3, reqs, parseVars>>

\* atomicUpdateJson: the store.set of an attempt, onlyIfMatch the etag that
\* was read or onlyIfNew. When it modified the blob, a hit is answered with
\* its total and goes on to update the popular cache, and an update of the
\* popular cache is done. When it did not, the next attempt begins; after
\* maxRetries attempts the update throws: a hit is answered 500, an update
\* of the popular cache ends silently.
WriteBlob(c) ==
    LET call == hitCalls[c]
        nextValue == NextValue(call, call.existing.data, arg.today, arg.cutoff,
                               arg.threeDayCutoff)
        modified == hitStore[TargetKey(call)].etag = call.existing.etag
    IN /\ call.pc = "write"
       /\ IF modified
          THEN /\ hitStore' = [hitStore EXCEPT ![TargetKey(call)] =
                                   [data |-> nextValue, etag |-> @.etag + 1]]
               /\ IF call.kind = "hit"
                  THEN /\ hitCalls' = [hitCalls EXCEPT ![c] =
                                           [call EXCEPT !.pc = "read", !.kind = "popular",
                                                        !.attempt = 0,
                                                        !.total = TotalSince(
                                                            nextValue, arg.threeDayCutoff),
                                                        !.status = 200]]
                       /\ val' = [val EXCEPT !.hits[call.key] = @ + 1]
                  ELSE /\ hitCalls' = [hitCalls EXCEPT ![c] = IdleClient(call.status)]
                       /\ val' = val
          ELSE /\ hitCalls' = [hitCalls EXCEPT ![c] =
                                   IF call.attempt + 1 < maxRetries
                                   THEN [call EXCEPT !.pc = "read", !.attempt = @ + 1]
                                   ELSE IdleClient(IF call.kind = "hit" THEN 500
                                                   ELSE call.status)]
               /\ UNCHANGED <<hitStore, val>>
       /\ UNCHANGED <<fn, arg, orig, runs, inflight, promises, s3, reqs, parseVars>>

\* GET /api/popular arrives at a client: getPopularCache begins
StartPopular(c) ==
    /\ hitCalls[c].pc = "idle"
    /\ val.gets < MaxGets
    /\ val' = [val EXCEPT !.gets = @ + 1]
    /\ hitCalls' = [hitCalls EXCEPT ![c] = [IdleClient(0) EXCEPT !.pc = "getCache",
                                                              !.kind = "get"]]
    /\ UNCHANGED <<hitStore, fn, arg, orig, runs, inflight, promises, s3, reqs, parseVars>>

\* the cache is read: one of the window that is less than 10 minutes old
\* (stale says that it is older) is served, otherwise rebuildPopular begins
GetPopularCache(c, stale) ==
    LET cached == hitStore[POPULAR_CACHE_KEY]
    IN /\ hitCalls[c].pc = "getCache"
       /\ hitCalls' = [hitCalls EXCEPT ![c] =
                           IF /\ cached.etag # 0
                              /\ cached.data.windowStart = arg.threeDayCutoff
                              /\ ~stale
                           THEN IdleClient(200)
                           ELSE [@ EXCEPT !.pc = "list"]]
       /\ UNCHANGED <<hitStore, helperVars, inflight, promises, s3, reqs, parseVars>>

\* rebuildPopular: store.list(), without the keys that start with "__"
ListBlobs(c) ==
    LET Listed(keys) == [hitCalls EXCEPT ![c].pc = "get", ![c].keys = keys]
        InOrder(S) == CHOOSE q \in [1..Cardinality(S) -> S] : \A k \in S : \E i \in DOMAIN q : q[i] = k
    IN /\ hitCalls[c].pc = "list"
       /\ hitCalls' = Listed(InOrder({k \in CaseKeys : hitStore[k].etag # 0}))
       /\ UNCHANGED <<hitStore, helperVars, inflight, promises, s3, reqs, parseVars>>

\* rebuildPopular: store.get of the next blob of the list, whose total is
\* kept when it is positive; after the last blob the cache is set,
\* whatever the store holds by then
GetOrSet(c) ==
    LET call == hitCalls[c]
        total == TotalSince(hitStore[Head(call.keys)].data, arg.threeDayCutoff)
    IN /\ call.pc = "get"
       /\ IF call.keys # << >>
          THEN /\ hitCalls' = [hitCalls EXCEPT
                                   ![c].keys = Tail(@),
                                   ![c].totals =
                                       IF total > 0
                                       THEN [k \in DOMAIN @ \cup {Head(call.keys)} |->
                                                 IF k = Head(call.keys) THEN total ELSE @[k]]
                                       ELSE @]
               /\ UNCHANGED hitStore
          ELSE /\ hitStore' = [hitStore EXCEPT ![POPULAR_CACHE_KEY] =
                                   [data |-> [windowStart |-> arg.threeDayCutoff,
                                              totals |-> call.totals],
                                    etag |-> @.etag + 1]]
               /\ hitCalls' = [hitCalls EXCEPT ![c] = IdleClient(200)]
       /\ UNCHANGED <<helperVars, inflight, promises, s3, reqs, parseVars>>

SpecHits ==
    InitHits
    /\ [][\/ \E c \in Clients, caseKey \in CaseKeys \cup {""} : StartHit(c, caseKey)
          \/ \E c \in Clients : ReadBlob(c)
          \/ \E c \in Clients : WriteBlob(c)
          \/ \E c \in Clients : StartPopular(c)
          \/ \E c \in Clients, stale \in BOOLEAN : GetPopularCache(c, stale)
          \/ \E c \in Clients : ListBlobs(c)
          \/ \E c \in Clients : GetOrSet(c)]_vars

Init ==
    /\ fn = "parsePdf"
    /\ arg = ""
    /\ val = ""
    /\ orig = ""
    /\ runs = 0
    /\ ServerIdle
    /\ pc = "extract"
    /\ pages = << >>
    /\ pageIdx = 0
    /\ chapterDatas = << >>
    /\ currentHeader = NullHeader
    /\ currentLines = << >>
    /\ currentFootnotes = << >>
    /\ chapters = << >>

\* one iteration of the page loop: the header band is classified and the
\* page is pushed
ExtractPage ==
    /\ pc = "extract"
    /\ Len(pages) < MaxPages
    /\ \E page \in PageKinds(Len(pages) + 1) :
           pages' = Append(pages,
                       [sectionHeader |-> parseSectionHeader(page.headerText),
                        bodyLines |-> page.bodyLines,
                        footnotes |-> page.footnotes,
                        footnoteContinuation |-> page.footnoteContinuation])
    /\ UNCHANGED <<pc, pageIdx, chapterDatas, currentHeader, currentLines,
                   currentFootnotes, chapters, helperVars, serverVars>>

\* an aggregation that starts with the footnote map it finds
StartAggregation_KeepFootnotes ==
    /\ pc = "extract"
    /\ pc' = "aggregate"
    /\ pageIdx' = 0
    /\ chapterDatas' = << >>
    /\ currentHeader' = NullHeader
    /\ currentLines' = << >>
    /\ UNCHANGED <<pages, chapters, currentFootnotes, helperVars, serverVars>>

\* the page loop ends and the aggregation state is set up
StartAggregation ==
    /\ pc = "extract"
    /\ pc' = "aggregate"
    /\ pageIdx' = 0
    /\ chapterDatas' = << >>
    /\ currentHeader' = NullHeader
    /\ currentLines' = << >>
    /\ currentFootnotes' = << >>
    /\ UNCHANGED <<pages, chapters, helperVars, serverVars>>

\* one iteration of for (const page of pages)
AggregatePage ==
    /\ pc = "aggregate"
    /\ pageIdx < Len(pages)
    /\ LET page == pages[pageIdx + 1]
           header == page.sectionHeader
           starts == StartsChapter(header, currentHeader)
       IN /\ chapterDatas' = IF starts
                             THEN FlushOnChange(chapterDatas, currentHeader,
                                                currentLines, currentFootnotes)
                             ELSE chapterDatas
          /\ currentHeader' = IF starts THEN header ELSE currentHeader
          /\ currentLines' = LinesAfter(starts, currentLines, page)
          /\ currentFootnotes' =
                 MergeFootnotes(IF starts THEN << >> ELSE currentFootnotes, page)
    /\ pageIdx' = pageIdx + 1
    /\ UNCHANGED <<pc, pages, chapters, helperVars, serverVars>>

\* after the loop: the last chapter is saved and the chapters are built
Finish ==
    /\ pc = "aggregate"
    /\ pageIdx = Len(pages)
    /\ LET datas == FinalFlush(chapterDatas, currentHeader, currentLines, currentFootnotes)
       IN /\ chapterDatas' = datas
          /\ chapters' = IF Len(datas) = 0 THEN <<OpinionChapter(pages)>>
                         ELSE [k \in 1..Len(datas) |-> BuildChapter(datas[k])]
    /\ pc' = "done"
    /\ UNCHANGED <<pages, pageIdx, currentHeader, currentLines, currentFootnotes,
                   helperVars, serverVars>>

Next == ExtractPage \/ StartAggregation \/ AggregatePage \/ Finish

Spec == Init /\ [][Next]_vars

(***************************************************************************)
(* parsePdf called again. A call starts with its own empty page list; the  *)
(* aggregation variables are declared only after the page loop, and until  *)
(* then they hold what the call before left in them.                       *)
(***************************************************************************)
MaxCalls == 2

\* the next call of parsePdf, after the one before has returned
CallAgain ==
    /\ pc = "done"
    /\ runs + 1 < MaxCalls
    /\ runs' = runs + 1
    /\ pc' = "extract"
    /\ pages' = << >>
    /\ chapters' = << >>
    /\ UNCHANGED <<pageIdx, chapterDatas, currentHeader, currentLines, currentFootnotes,
                   fn, arg, val, orig, serverVars>>

SpecCalls == Init /\ [][Next \/ CallAgain]_vars

(***************************************************************************)
(* The metadata step of parsePdf. The case title read from the items of    *)
(* page 1 is an input: a title, or "Unknown Case" when the banner was not  *)
(* found, no item lay below it or reading the page failed.                 *)
(***************************************************************************)
MaxDocPages == 2

InitMeta ==
    LET bodies == <<<<"SUPREME COURT OF THE UNITED STATES", "",
                      "DOE v . DYNAMIC PHYSICAL THERAPY  some other text">>,
                    <<"No case name here", "Just text">>,
                    <<"No. 24" \o EnDash \o "568">>,
                    <<"BOST ET AL. v. ILLINOIS,",
                      "No. 23-939. Argued March 1, 2024" \o EmDash \o "Decided June 15, 2024">>,
                    <<"[July 1, 2024]">>,
                    <<"Nos. 24" \o EnDash \o "568 and 24" \o EnDash \o "569",
                      "see No. 24" \o EnDash \o "568" \o EnDash \o "9 below">>,
                    <<"as noted in No. - above">>,
                    << >>,
                    <<"Decided quickly", "  ">>,
                    <<"No.7, decided [May 30, 2023] and Decided May 31, 20231">>>>
        Page(lines) == [bodyLines |-> lines]
        filler == [k \in 1..19 |-> "line"]
        fixed == {\* the docket number is on the fourth page
                  <<Page(<<"a">>), Page(<<"b">>), Page(<<"c">>), Page(<<"No. 23-939">>)>>,
                  \* the caption is the 20th, or the 21st, non-empty line
                  <<Page(filler \o <<"", "FOO v. BAR">>)>>,
                  <<Page(filler \o <<"one more", "FOO v. BAR">>)>>}
        generated == {[k \in 1..Len(f) |-> Page(bodies[f[k]])] :
                          f \in UNION {[1..n -> 1..Len(bodies)] : n \in 0..MaxDocPages}}
    IN /\ ParseIdle
       /\ ServerIdle
       /\ fn = "metadata"
       /\ arg \in {[caseTitle |-> t, pages |-> d] :
                       t \in {"Unknown Case", "TRUMP v. UNITED STATES"},
                       d \in generated \cup fixed}
       /\ orig = ""
       /\ val = Null
       /\ runs = 0

\* parsePdf: "Extract metadata from page 1 items" to the return statement
ApplyMetadata ==
    LET Metadata(firstPagesText) ==
            /\ orig' = firstPagesText
            /\ val' = [caseTitle |-> IF arg.caseTitle = "Unknown Case"
                                     THEN extractCaseTitleFromText(firstPagesText)
                                     ELSE arg.caseTitle,
                       docketNumber |-> extractDocketNumber(firstPagesText),
                       decidedDate |-> extractDecidedDate(firstPagesText)]
    IN /\ fn = "metadata"
       /\ runs = 0
       /\ Metadata(Join([k \in 1..Min(3, Len(arg.pages)) |->
                            Join(arg.pages[k].bodyLines, "\n")], "\n"))
       /\ runs' = 1
       /\ UNCHANGED <<fn, arg, parseVars, serverVars>>

SpecMeta == InitMeta /\ [][ApplyMetadata]_vars


(***************************************************************************)
(* The properties of the aggregation                                       *)
(***************************************************************************)
\* the paragraph texts of a chapter, one per line
ChapterBody(ch) == Join([k \in 1..Len(ch.paragraphs) |-> ch.paragraphs[k].text], "\n")

\* the body lines of page p that are not paragraph breaks
BodyLinesOf(p) == {pages[p].bodyLines[k] : k \in 1..Len(pages[p].bodyLines)} \ {""}

\* the chapters whose paragraphs hold the line
Holders(line) == {c \in 1..Len(chapters) : Includes(ChapterBody(chapters[c]), line)}

\* t starts with s
StartsWith(t, s) == Len(t) >= Len(s) /\ SubSeq(t, 1, Len(s)) = s

\* the first page whose header has this id, 0 when there is none
FirstPage(id) ==
    LET with == {p \in 1..Len(pages) : pages[p].sectionHeader.id = id}
    IN IF with = {} THEN 0 ELSE CHOOSE p \in with : \A q \in with : p <= q

\* every body line of every page is in the text body, the lines of an
\* earlier page before those of a later page
InPageOrder(body) ==
    /\ \A p \in 1..Len(pages) : \A l \in BodyLinesOf(p) : Includes(body, l)
    /\ \A p, q \in 1..Len(pages) : \A l \in BodyLinesOf(p) : \A m \in BodyLinesOf(q) :
           p < q => IndexOfFrom(body, l, 1) < IndexOfFrom(body, m, 1)

\* C1: the chapters of the returned document have pairwise distinct ids and
\* stand in the order of the first page on which each one's header appears
C1_ChapterIdsDistinctOrdered ==
    pc = "done" =>
        /\ \A a, b \in 1..Len(chapters) : a # b => chapters[a].id # chapters[b].id
        /\ \A a, b \in 1..Len(chapters) :
               (a < b /\ FirstPage(chapters[a].id) > 0 /\ FirstPage(chapters[b].id) > 0)
                   => FirstPage(chapters[a].id) < FirstPage(chapters[b].id)

\* C2: in every chapter of the output every {{fn:N}} marker of a paragraph
\* has N among the ids of that chapter's footnotes
C2_MarkersResolve ==
    pc = "done" =>
        \A c \in 1..Len(chapters) : \A k \in 1..Len(chapters[c].paragraphs) :
            \A d \in 1..9 :
                Includes(chapters[c].paragraphs[k].text, "{{fn:" \o DigitStr(d) \o "}}")
                    => \E f \in 1..Len(chapters[c].footnotes) : chapters[c].footnotes[f].id = d

\* C3: every body line of every page is in exactly one chapter of the
\* output, and all lines of one page are in the same chapter
C3_PageInOneChapter ==
    pc = "done" =>
        \A p \in 1..Len(pages) :
            /\ \A l \in BodyLinesOf(p) : Cardinality(Holders(l)) = 1
            /\ \A l, m \in BodyLinesOf(p) : Holders(l) = Holders(m)

\* C3 witness: a page of two paragraphs went whole into the first chapter
\* and the next page, under another header, into the second
C3_Witness ==
    /\ pc = "done" /\ Len(pages) = 2 /\ Len(chapters) = 2
    /\ Holders("More opinion body 1{{fn:2}} goes on.") = {1}
    /\ Holders("Last opinion body 1{{fn:1}} ends.") = {1}
    /\ Holders("Syllabus body 2 ends.") = {2}

\* the last chapter of the output is the chapter that was open at the end
LastIsOpenChapter ==
    /\ Len(chapters) >= 1
    /\ chapters[Len(chapters)].id = currentHeader.id
    /\ \A k \in 1..Len(currentLines) :
           currentLines[k] # "" => Includes(ChapterBody(chapters[Len(chapters)]), currentLines[k])
    /\ {chapters[Len(chapters)].footnotes[f].id : f \in 1..Len(chapters[Len(chapters)].footnotes)}
           = {currentFootnotes[f].id : f \in 1..Len(currentFootnotes)}

\* the output is the one synthetic chapter made of all pages
OneSyntheticChapter ==
    /\ Len(chapters) = 1
    /\ chapters[1].id = "opinion"
    /\ InPageOrder(ChapterBody(chapters[1]))

\* C4 as stated: the chapter open at the end of the document is flushed, the
\* output has at least one chapter, and when no page has a recognised header
\* the output is exactly one synthetic chapter of all body lines in page order
C4_FinalChapterFlushed ==
    pc = "done" =>
        /\ currentHeader # NullHeader => LastIsOpenChapter
        /\ Len(chapters) >= 1
        /\ (\A p \in 1..Len(pages) : pages[p].sectionHeader = NullHeader)
               => OneSyntheticChapter

\* C4 amended: the chapter open at the end is flushed when it has a body
\* line; the output has at least one chapter; when no chapter was flushed at
\* all the output is exactly one synthetic chapter of all body lines in page
\* order
C4_FinalChapterFlushedIfLines ==
    pc = "done" =>
        /\ (currentHeader # NullHeader /\ currentLines # << >>) => LastIsOpenChapter
        /\ Len(chapters) >= 1
        /\ chapterDatas = << >> => OneSyntheticChapter
        /\ (\A p \in 1..Len(pages) : pages[p].sectionHeader = NullHeader)
               => chapterDatas = << >>

\* C4 witness: the opinion chapter, open when the pages ran out, is the last
\* chapter of the output
C4_Witness ==
    /\ pc = "done" /\ Len(pages) = 2 /\ Len(chapters) = 2
    /\ currentHeader.id = "opinion-majority" /\ currentLines # << >>
    /\ chapters[1].id = "syllabus" /\ chapters[2].id = "opinion-majority"
    /\ Includes(ChapterBody(chapters[2]), "Last opinion body 2{{fn:1}} ends.")

\* C5: in every chapter of the output the footnote ids are strictly
\* ascending (so pairwise distinct), and where the texts of one footnote from
\* two pages are in an entry, the earlier page's text comes first
C5_FootnotesAscending ==
    pc = "done" =>
        \A c \in 1..Len(chapters) :
            LET f == chapters[c].footnotes
            IN /\ \A a, b \in 1..Len(f) : a < b => f[a].id < f[b].id
               /\ \A k \in 1..Len(f) : \A p, q \in 1..Len(pages) :
                      (/\ p < q
                       /\ Includes(f[k].text, Note(f[k].id, p).text)
                       /\ Includes(f[k].text, Note(f[k].id, q).text))
                          => IndexOfFrom(f[k].text, Note(f[k].id, p).text, 1)
                                 < IndexOfFrom(f[k].text, Note(f[k].id, q).text, 1)

\* C5 witness: two pages of one chapter, each with the footnotes 2 and 1 in
\* that order, give the entries 1 and 2 with the page texts joined
C5_Witness ==
    /\ pc = "done" /\ Len(chapters) = 1
    /\ chapters[1].footnotes =
           <<[id |-> 1, text |-> "Note 1 of page 1. Note 1 of page 2."],
             [id |-> 2, text |-> "Note 2 of page 1. carried to page 2. Note 2 of page 2."]>>

\* what a page without a recognised header does to the open chapter: no
\* chapter is pushed or opened, its lines are appended and each of its
\* footnote texts is in the entry of its id
NullPageFolds ==
    LET page == pages[pageIdx + 1]
    IN /\ chapterDatas' = chapterDatas
       /\ currentHeader' = currentHeader
       /\ currentLines' = currentLines \o page.bodyLines
       /\ \A k \in 1..Len(page.footnotes) :
              /\ MapGet(currentFootnotes', page.footnotes[k].id) # Null
              /\ Includes(MapGet(currentFootnotes', page.footnotes[k].id),
                          page.footnotes[k].text)

\* the step of the aggregation loop for a page with this kind of header
AggregatesPage(null) ==
    /\ pc = "aggregate"
    /\ pageIdx' = pageIdx + 1
    /\ (pages[pageIdx + 1].sectionHeader = NullHeader) = null

\* the lines and footnotes collected so far are pushed as the one chapter
\* 'preamble'
PreambleFlushed ==
    /\ Len(chapterDatas') = 1
    /\ chapterDatas'[1].header.id = "preamble"
    /\ chapterDatas'[1].text = Join(currentLines, "\n")
    /\ chapterDatas'[1].footnotes = currentFootnotes

\* C6 as stated: a page whose header is null opens no chapter and is folded
\* into the open chapter; if no header was seen before, what such pages have
\* accumulated is flushed as the chapter 'preamble' when the first header
\* appears
C6_NullPagesFoldOrPreamble ==
    [][/\ AggregatesPage(TRUE) => NullPageFolds
       /\ (AggregatesPage(FALSE) /\ currentHeader = NullHeader
           /\ (currentLines # << >> \/ currentFootnotes # << >>))
              => PreambleFlushed]_vars

\* C6 amended: as above, but the preamble chapter is flushed only if the
\* pages before the first header have accumulated a body line; if they have
\* not, nothing is flushed and their footnotes are dropped
C6_NullPagesFoldOrPreambleIfLines ==
    [][/\ AggregatesPage(TRUE) => NullPageFolds
       /\ (AggregatesPage(FALSE) /\ currentHeader = NullHeader /\ currentLines # << >>)
              => PreambleFlushed
       /\ (AggregatesPage(FALSE) /\ currentHeader = NullHeader /\ currentLines = << >>)
              => (chapterDatas' = << >> /\ currentFootnotes' = pages[pageIdx + 1].footnotes)]_vars

\* C6 witness: the first page had no recognised header, the second opened
\* the syllabus, and the first page was flushed as the preamble
C6_Witness ==
    /\ pc = "aggregate" /\ pageIdx = 2
    /\ pages[1].sectionHeader = NullHeader
    /\ Len(chapterDatas) = 1
    /\ chapterDatas[1].header.id = "preamble"
    /\ chapterDatas[1].text = "Plain body 1{{fn:1}} ends."
    /\ chapterDatas[1].footnotes = <<Note(1, 1)>>
    /\ currentHeader.id = "syllabus"

\* C7: the continuation text of a page goes to the end of the footnote with
\* the largest id collected from the earlier pages of the chapter, before
\* the page's own entries are merged: a footnote first defined on the page
\* has the page's text alone
C7_ContinuationBeforeOwn ==
    [][(pc = "aggregate" /\ pageIdx' = pageIdx + 1
        /\ pages[pageIdx + 1].footnoteContinuation # "")
       => LET page == pages[pageIdx + 1]
              before == IF StartsChapter(page.sectionHeader, currentHeader)
                        THEN << >> ELSE currentFootnotes
              m == MaxId(before)
          IN /\ m > 0 => StartsWith(MapGet(currentFootnotes', m),
                                    MapGet(before, m) \o " " \o page.footnoteContinuation)
             /\ \A k \in 1..Len(page.footnotes) :
                    MapGet(before, page.footnotes[k].id) = Null
                        => MapGet(currentFootnotes', page.footnotes[k].id)
                               = page.footnotes[k].text]_vars

\* C7 witness: the second opinion page carried text over; it went to
\* footnote 2 of the first page, and the second page's own footnote 2 after it
C7_Witness ==
    /\ pc = "aggregate" /\ pageIdx = 2
    /\ pages[2].footnoteContinuation = Carried(2)
    /\ MapGet(currentFootnotes, 2) = "Note 2 of page 1. carried to page 2. Note 2 of page 2."

\* the aggregation state after one more page, from the state st
AfterPage(st, page) ==
    [datas |-> IF StartsChapter(page.sectionHeader, st.header)
               THEN FlushOnChange(st.datas, st.header, st.lines, st.footnotes)
               ELSE st.datas,
     header |-> IF StartsChapter(page.sectionHeader, st.header) THEN page.sectionHeader
                ELSE st.header,
     lines |-> LinesAfter(StartsChapter(page.sectionHeader, st.header), st.lines, page),
     footnotes |-> MergeFootnotes(IF StartsChapter(page.sectionHeader, st.header)
                                  THEN << >> ELSE st.footnotes, page)]

RECURSIVE AfterPages(_, _, _)
AfterPages(pgs, n, st) ==
    IF n > Len(pgs) THEN st ELSE AfterPages(pgs, n + 1, AfterPage(st, pgs[n]))

\* the chapters built from chapter data, or the one chapter made of all text
ChaptersOfDatas(pgs, datas) ==
    IF Len(datas) = 0 THEN <<OpinionChapter(pgs)>>
    ELSE [k \in 1..Len(datas) |-> BuildChapter(datas[k])]

ChaptersAfter(pgs, st) ==
    ChaptersOfDatas(pgs, FinalFlush(st.datas, st.header, st.lines, st.footnotes))

\* the chapters of a page list parsed with nothing parsed before
ChaptersOf(pgs) ==
    ChaptersAfter(pgs, AfterPages(pgs, 1, [datas |-> << >>, header |-> NullHeader,
                                           lines |-> << >>, footnotes |-> << >>]))

\* C18: parsePdf keeps no state between calls: the chapters a call returns
\* are those of its own page list parsed with nothing parsed before,
\* whatever the calls before it parsed
C18_NoStateBetweenCalls ==
    pc = "done" => chapters = ChaptersOf(pages)

\* C18 witness: a second call returned, on a page that brings a footnote
\* continuation and so would show what an earlier call left behind
C18_Witness ==
    /\ pc = "done" /\ runs = 1 /\ Len(pages) = 1
    /\ pages[1].footnoteContinuation = Carried(1)
    /\ Len(chapters) = 1

(***************************************************************************)
(* The properties of the metadata                                          *)
(***************************************************************************)
\* the trimmed line reads "<name> v. <name>"
ReadsAsCaption(line) ==
    TestAt1(<<NCls({"\n"}, 1, -1), Plus(SpaceCh), Lit("v"), Star(SpaceCh), Lit("."),
              Plus(SpaceCh), NCls({"\n"}, 1, 1)>>, Trim(line))

\* one of the first 20 non-empty lines of the text reads as a caption
CaptionInFirst20(text) ==
    LET NonEmpty(l) == Trim(l) # ""
        In(lines) == \E n \in 1..Min(20, Len(lines)) : ReadsAsCaption(lines[n])
    IN In(SelectSeq(Split(<<Lit("\n")>>, text), NonEmpty))

\* <Month Day, Year>
MonthDayYear == <<Plus(WordCh), Plus(SpaceCh), Plus(Digit), Lit(","), Plus(SpaceCh),
                  Cls(Digit, 4, 4)>>

\* the date of the first match of the form in the text, "" when there is none
DateOf(form, text, a, b) ==
    LET Date(m) == IF m = NoMatch THEN "" ELSE Group(text, m, a, b)
    IN Date(Search(form, text, 1))

DecidedDateIn(text) == DateOf(<<Lit("Decided"), Plus(SpaceCh)>> \o MonthDayYear, text, 3, 8)

BracketedDateIn(text) == DateOf(<<Lit("[")>> \o MonthDayYear \o <<Lit("]")>>, text, 2, 7)

MetadataDone == fn = "metadata" /\ runs = 1

\* the title is "Unknown Case" when the page-1 method fails and none of the
\* first 20 non-empty body lines reads "<name> v. <name>", and the decided
\* date is "" when the text has neither "Decided <Month Day, Year>" nor
\* "[<Month Day, Year>]", the "Decided" form winning when both occur
TitleAndDateSentinels ==
    /\ (arg.caseTitle = "Unknown Case" /\ ~CaptionInFirst20(orig))
           => val.caseTitle = "Unknown Case"
    /\ val.caseTitle # ""
    /\ (DecidedDateIn(orig) = "" /\ BracketedDateIn(orig) = "") => val.decidedDate = ""
    /\ DecidedDateIn(orig) # "" => val.decidedDate = DecidedDateIn(orig)

\* C19: metadata extraction degrades to sentinels: the title and the date
\* as above, and the docket number is "" when the text has no "No."
\* followed by digits
C19_MetadataSentinels ==
    MetadataDone =>
        /\ TitleAndDateSentinels
        /\ ~Test(<<Lit("No."), Star(SpaceCh), One(Digit)>>, orig) => val.docketNumber = ""

\* the text of the first "No. <digits with hyphen/en-dash>" of the text
FirstDocketIn(text) ==
    DateOf(<<Lit("No."), Star(SpaceCh), Plus(Digit \cup {"-", EnDash})>>, text, 3, 3)

\* C20: the docket number is the first "No. <digits with hyphen/en-dash>"
\* of the text with its en-dashes turned into hyphens, so it holds no
\* en-dash, and it is "" when the text has no such match
C20_DocketNumberHasNoEnDash ==
    MetadataDone =>
        /\ ~Includes(val.docketNumber, EnDash)
        /\ val.docketNumber = ReplaceAll(<<Lit(EnDash)>>, FirstDocketIn(orig), <<RLit("-")>>)

(***************************************************************************)
(* The properties of the layout pass                                       *)
(***************************************************************************)
LayoutDone == fn = "layoutPage" /\ runs = 1

\* the text is one or two digits
OneOrTwoDigits(t) == Len(t) \in 1..2 /\ \A i \in 1..Len(t) : Ch(t, i) \in Digit

\* the text is a line of em-dashes
AllDashes(t) == Len(t) >= 2 /\ \A i \in 1..Len(t) : Ch(t, i) = EmDash

\* the average font size of the line is below the limit
FontBelow(line, limit) == line.fsSum < limit * line.fsCount

\* the number that one or two digits denote
NumberOf(t) ==
    CHOOSE n \in 0..99 : t = (IF Len(t) = 2 THEN DigitStr(n \div 10) ELSE "") \o DigitStr(n % 10)

\* the smallest element of S, otherwise
LeastOr(S, otherwise) == IF S = {} THEN otherwise ELSE CHOOSE i \in S : \A j \in S : i <= j

RECURSIVE TextOfLines(_, _, _)
\* the texts of the lines lo..hi that are not separator lines, in order
TextOfLines(lines, lo, hi) ==
    IF lo > hi THEN ""
    ELSE (IF AllDashes(lines[lo].text) THEN "" ELSE " " \o lines[lo].text)
         \o TextOfLines(lines, lo + 1, hi)

\* The footnote block of the lines, which starts after the separator line
\* sep: every number line opens a footnote that takes the lines up to the
\* next number line, and the continuation is the text before the first one
FootnoteBlockAsClaimed(lines, bodyFS, sep, footnotes, footnoteContinuation) ==
    LET numbers == {k \in (sep + 1)..Len(lines) :
                        OneOrTwoDigits(lines[k].text) /\ FontBelow(lines[k], bodyFS - 30)}
        NextNumber(k) == LeastOr({j \in numbers : j > k}, Len(lines) + 1)
        Id(k) == NumberOf(lines[k].text)
    IN /\ footnoteContinuation = Trim(TextOfLines(lines, sep + 1, LeastOr(numbers, Len(lines) + 1) - 1))
       /\ \A k \in numbers :
              (\A j \in numbers : j > k => Id(j) # Id(k))
                  => MapGet(footnotes, Id(k)) = Trim(TextOfLines(lines, k + 1, NextNumber(k) - 1))

\* the index of the separator line of the lines, 0 when there is none
SeparatorLine(lines, bodyFS) ==
    LeastOr({k \in 1..Len(lines) :
                 AllDashes(lines[k].text) /\ FontBelow(lines[k], bodyFS - 10)}, 0)

\* C21: in the footnote block every standalone 1-2 digit line in a font
\* below bodyFS - 3 opens a new footnote, the lines that follow are appended
\* to it, and footnoteContinuation holds only the text before the first
\* footnote-number line of the page
C21_ContinuationBeforeFirstNumber ==
    (LayoutDone /\ SeparatorLine(val.textLines, val.bodyFS) > 0)
        => FootnoteBlockAsClaimed(val.textLines, val.bodyFS,
                                  SeparatorLine(val.textLines, val.bodyFS),
                                  val.footnotes, val.footnoteContinuation)

RECURSIVE Occurrences(_, _, _)
\* the number of occurrences of t in s from position i on
Occurrences(s, t, i) ==
    IF IndexOfFrom(s, t, i) = 0 THEN 0
    ELSE 1 + Occurrences(s, t, IndexOfFrom(s, t, i) + Len(t))

RECURSIVE OccurrencesInLines(_, _, _)
\* the number of occurrences of t in the texts of the lines from the k-th on
OccurrencesInLines(lines, t, k) ==
    IF k > Len(lines) THEN 0
    ELSE Occurrences(lines[k].text, t, 1) + OccurrencesInLines(lines, t, k + 1)

\* the run is in the body of a page of height 792: under the header band
\* and above the footer
InBodyBand(it) == it.y >= 600 /\ 100 * it.y < 80 * 7920

\* the run is a footnote-reference candidate: 1-2 digits, in a font below
\* bodyFS - 2.5, above the separator
ReferenceCandidate(it, bodyFS, separatorY) ==
    /\ InBodyBand(it)
    /\ OneOrTwoDigits(Trim(it.text))
    /\ it.fontSize < bodyFS - 25
    /\ separatorY < 0 \/ it.y > separatorY + 20

\* the runs of the page that are footnote-reference candidates for number t
CandidatesFor(items, t, bodyFS, separatorY) ==
    {k \in 1..Len(items) :
         Trim(items[k].text) = t /\ ReferenceCandidate(items[k], bodyFS, separatorY)}

\* C22: every run that is a footnote-reference candidate is emitted as a
\* {{fn:N}} marker and never as literal digits, also when it was snapped to
\* its nearest neighbour, and no other digit run is emitted as a marker: the
\* lines hold as many {{fn:N}} markers as the page has candidates for N
C22_CandidatesBecomeMarkers ==
    LayoutDone =>
        \A k \in 1..Len(arg) :
            OneOrTwoDigits(Trim(arg[k].text)) =>
                OccurrencesInLines(val.textLines, "{{fn:" \o Trim(arg[k].text) \o "}}", 1)
                    = Cardinality(CandidatesFor(arg, Trim(arg[k].text), val.bodyFS,
                                                val.separatorY))

\* the line assembler places the k-th run and the one after it on the same
\* line: their y differ by at most 2
OnSameLine(items, k) == Abs(items[k + 1].y - items[k].y) <= 20

\* C23: runs that the line assembler places on the same line appear in the
\* line text, which takes them in the order of bodyItems, in ascending x
\* order, also when their y differ by less than a unit
C23_SameLineRunsInXOrder ==
    LayoutDone =>
        \A k \in 1..(Len(val.bodyItems) - 1) :
            OnSameLine(val.bodyItems, k) => val.bodyItems[k].x <= val.bodyItems[k + 1].x

\* the Roman numeral of a number from 1 to 39
RomanNumeral(n) ==
    Repeat("X", n \div 10)
        \o <<"", "I", "II", "III", "IV", "V", "VI", "VII", "VIII", "IX">>[(n % 10) + 1]

\* the text is a bare Roman numeral
IsRomanNumeral(t) == \E n \in 1..39 : t = RomanNumeral(n)

\* the texts that the level-1 pattern I{1,4}V?|VI{0,3}|IX|X{0,3} accepts
Level1Numerals ==
    {"I", "II", "III", "IIII", "IV", "IIV", "IIIV", "IIIIV",
     "V", "VI", "VII", "VIII", "IX", "X", "XX", "XXX"}

\* the line is in body font and starts more than 50 right of the margin
CenteredLine(line, bodyFS, bodyLeftMargin) ==
    /\ line.startX - bodyLeftMargin > 500
    /\ Abs(line.fsSum - bodyFS * line.fsCount) < 15 * line.fsCount

\* the lines of the body: those before the separator line
BodyEnd(lines, bodyFS) ==
    IF SeparatorLine(lines, bodyFS) > 0 THEN SeparatorLine(lines, bodyFS) - 1 ELSE Len(lines)

\* the marker stands in the body lines between two blank lines
OwnParagraph(bodyLines, marker) ==
    \E j \in 2..(Len(bodyLines) - 1) :
        bodyLines[j - 1] = "" /\ bodyLines[j] = marker /\ bodyLines[j + 1] = ""

\* the body line is a heading marker
IsHeadingLine(l) ==
    Len(l) > 5 /\ SubSeq(l, 1, 3) = "{{h" /\ Ch(l, 4) \in {"1", "2", "3"} /\ Ch(l, 5) = ":"

\* C24 as stated: a centered body-font line that is a bare Roman numeral
\* becomes a level-1 heading, whatever the numeral
C24_RomanNumeralIsLevel1 ==
    LayoutDone =>
        \A k \in 1..BodyEnd(val.textLines, val.bodyFS) :
            (/\ CenteredLine(val.textLines[k], val.bodyFS, val.bodyLeftMargin)
             /\ IsRomanNumeral(val.textLines[k].text))
                => OwnParagraph(val.bodyLines, "{{h1:" \o val.textLines[k].text \o "}}")

\* the marker that the precedence gives a centered line with this text, ""
\* when it gives none
MarkerByPrecedence(t) ==
    IF t \in Level1Numerals THEN "{{h1:" \o t \o "}}"
    ELSE IF Len(t) = 1 /\ Ch(t, 1) \in Upper THEN "{{h2:" \o t \o "}}"
    ELSE IF OneOrTwoDigits(t) THEN "{{h3:" \o t \o "}}"
    ELSE ""

\* the lines of the body that are centered while the margin is positive
CenteredLines(lines, bodyFS, bodyLeftMargin) ==
    {k \in 1..BodyEnd(lines, bodyFS) :
         bodyLeftMargin > 0 /\ CenteredLine(lines[k], bodyFS, bodyLeftMargin)}

\* C24, amended: a centered body-font line becomes a heading marker by the
\* precedence level-1 numeral (I to X, and the other texts of the pattern),
\* single capital letter, 1-2 digit number; the marker is a paragraph of its
\* own, and every heading marker of the body lines comes from such a line
C24_HeadingByPrecedence ==
    LayoutDone =>
        /\ \A k \in CenteredLines(val.textLines, val.bodyFS, val.bodyLeftMargin) :
               MarkerByPrecedence(val.textLines[k].text) # ""
                   => OwnParagraph(val.bodyLines, MarkerByPrecedence(val.textLines[k].text))
        /\ \A j \in 1..Len(val.bodyLines) :
               IsHeadingLine(val.bodyLines[j])
                   => \E k \in CenteredLines(val.textLines, val.bodyFS, val.bodyLeftMargin) :
                          val.bodyLines[j] = MarkerByPrecedence(val.textLines[k].text)

\* a page with the centered lines I, A and 2 has the three levels of heading
C24_Witness ==
    /\ LayoutDone
    /\ OwnParagraph(val.bodyLines, "{{h1:I}}")
    /\ OwnParagraph(val.bodyLines, "{{h2:A}}")
    /\ OwnParagraph(val.bodyLines, "{{h3:2}}")

(***************************************************************************)
(* The properties of the calendar                                          *)
(***************************************************************************)
\* a call of isConferenceWindow has answered after scraping the homepage:
\* the time was in the window and the blob store had nothing for the day
ScrapedCall ==
    /\ fn = "isConferenceWindow"
    /\ runs > 0
    /\ arg.fetch = "ok"
    /\ ~arg.up \/ MapGet(arg.blobs, <<toEasternTime(arg.now).year,
                                      toEasternTime(arg.now).month + 1,
                                      toEasternTime(arg.now).dayOfMonth>>) = Null

\* the Eastern time of day is at or after 9:55 and before 12:30
InWindow(et) ==
    /\ et.hours * 60 + et.minutes >= 9 * 60 + 55
    /\ et.hours * 60 + et.minutes < 12 * 60 + 30

\* the calendar has a conference day on the Eastern date (year, month and
\* day), whether the calendar counts its months from 0 or from 1
ConferenceDayOn(calendar, et) ==
    \E k \in 1..Len(calendar) :
        /\ Includes(ToLowerCase(calendar[k].label), "conference")
        /\ calendar[k].year = et.year
        /\ calendar[k].month \in {et.month, et.month + 1}
        /\ calendar[k].day = et.dayOfMonth

\* C25: isConferenceWindow(now) is true if and only if the Eastern date of
\* now (year, month and day) is a conference day of the scraped calendar and
\* the Eastern time of day is in [9:55, 12:30); an entry for another month or
\* year never makes it true
C25_TrueIffConferenceDateInWindow ==
    ScrapedCall =>
        (val <=> (/\ InWindow(toEasternTime(arg.now))
                  /\ ConferenceDayOn(arg.calendar, toEasternTime(arg.now))))

(***************************************************************************)
(* The properties of the parse endpoint                                    *)
(***************************************************************************)
\* the parse promises of the key that are pending
InProgress(key) ==
    {p \in 1..Len(promises) : promises[p].key = key /\ promises[p].state = "pending"}

\* C26 as stated: a request that arrives while a fetch-and-parse of its key
\* is in progress awaits the promise of that fetch-and-parse
C26_ArrivalAwaitsPromiseInProgress ==
    fn = "GET" =>
        \A r \in 1..Len(reqs) :
            (reqs[r].seen # 0 /\ reqs[r].promise # 0) => reqs[r].promise = reqs[r].seen

\* at most one fetch-and-parse of a key is in progress, it is the one that
\* inflight holds, and the entry is gone once the promise has settled and
\* run its finally; a request is answered by the outcome of its promise,
\* after that finally
OneInFlight ==
    /\ \A key \in CacheKeys :
           /\ Cardinality(InProgress(key)) <= 1
           /\ \A p \in InProgress(key) : inflight[key] = p
    /\ \A p \in 1..Len(promises) : promises[p].cleaned => inflight[promises[p].key] # p
    /\ \A r \in 1..Len(reqs) :
           (reqs[r].pc = "done" /\ reqs[r].promise # 0)
               => /\ promises[reqs[r].promise].cleaned
                  /\ reqs[r].status = StatusOf(promises[reqs[r].promise].state)

\* a request that goes on after a cache miss while inflight holds a promise
\* for its key awaits that promise, and starts no fetch-and-parse
JoinsInFlight ==
    \A r \in 1..Len(reqs) :
        (/\ reqs[r].pc = "cacheAnswered"
         /\ Len(reqs') = Len(reqs)
         /\ reqs'[r].pc = "awaitParse"
         /\ inflight[reqs[r].key] # 0)
            => /\ reqs'[r].promise = inflight[reqs[r].key]
               /\ promises' = promises

\* C26, amended: at most one fetch-and-parse per cache key is in progress;
\* a request that reaches the singleflight check while inflight holds a
\* promise for its key awaits that promise and is answered by its outcome;
\* the entry is removed when the promise has settled, however it settled
C26_Singleflight == [](fn = "GET" => OneInFlight) /\ [][fn = "GET" => JoinsInFlight]_vars

\* two requests have been answered by the outcome of one promise
C26_Witness ==
    /\ fn = "GET"
    /\ \E r1, r2 \in 1..Len(reqs) :
           /\ r1 # r2
           /\ reqs[r1].pc = "done" /\ reqs[r2].pc = "done"
           /\ reqs[r1].promise # 0 /\ reqs[r1].promise = reqs[r2].promise
           /\ reqs[r1].status = reqs[r2].status
           /\ inflight[reqs[r1].key] = 0

(***************************************************************************)
(* The properties of the hit endpoints                                     *)
(***************************************************************************)
\* the count that the stored data of the key has for the date
CountOn(store, key, date) ==
    IF date \in DOMAIN store[key].data THEN store[key].data[date] ELSE 0

\* the stored counter of today of every case key is higher than before by
\* the number of POST requests for it that were answered with success
CountsEveryHit ==
    \A k \in CaseKeys :
        CountOn(hitStore, k, arg.today) = CountOn(orig, k, arg.today) + val.hits[k]

\* a write of a hit request is answered 500 exactly when it is the write of
\* the 6th attempt and has not changed the store
AnswersAfterLastAttempt ==
    \A c \in Clients :
        (hitCalls[c].kind = "hit" /\ hitCalls[c].pc = "write" /\ hitCalls'[c] # hitCalls[c])
            => (hitCalls'[c].status = 500
                    <=> (hitCalls[c].attempt = maxRetries - 1 /\ hitStore' = hitStore))

\* C27: no hit is lost under concurrency: N POST requests for a case key
\* that are answered with success leave its stored counter of the day
\* exactly N higher, and a request whose 6 attempts all lose the race
\* changes nothing and is answered 500
C27_NoHitLost ==
    [](fn = "hit" => CountsEveryHit) /\ [][fn = "hit" => AnswersAfterLastAttempt]_vars

\* a request has lost its 6 attempts to 6 other hits and was answered 500
C27_Witness ==
    /\ fn = "hit"
    /\ \E c \in Clients : hitCalls[c].pc = "idle" /\ hitCalls[c].status = 500
    /\ \E k \in CaseKeys :
           /\ val.hits[k] = 6
           /\ CountOn(hitStore, k, arg.today) = CountOn(orig, k, arg.today) + 6

\* C28: once the hit requests, their updates of the popular cache and the
\* rebuilds have completed, the total of the popular cache for a case key
\* that was hit is the sum of its stored counts inside the 3-day window
C28_PopularTotalsMatchStore ==
    (fn = "hit" /\ \A c \in Clients : hitCalls[c].pc = "idle")
        => \A k \in CaseKeys :
               val.hits[k] > 0
                   => /\ hitStore[POPULAR_CACHE_KEY].etag # 0
                      /\ k \in DOMAIN hitStore[POPULAR_CACHE_KEY].data.totals
                      /\ hitStore[POPULAR_CACHE_KEY].data.totals[k]
                             = TotalSince(hitStore[k].data, arg.threeDayCutoff)

(***************************************************************************)
(* The footnote-reference markers through buildParagraphs                  *)
(***************************************************************************)
RECURSIVE MarkersFrom(_, _)
\* the {{fn:N}} markers of the text from index i on, in order
MarkersFrom(text, i) ==
    LET Found(m) == IF m = NoMatch THEN << >>
                    ELSE <<SubSeq(text, m.start, MatchEnd(m) - 1)>>
                         \o MarkersFrom(text, MatchEnd(m))
    IN Found(Search(<<Lit("{{fn:"), Plus(Digit), Lit("}}")>>, text, i))

RECURSIVE MarkersOfParagraphs(_, _)
\* the markers of the paragraphs n.., read in sequence
MarkersOfParagraphs(paragraphs, n) ==
    IF n > Len(paragraphs) THEN << >>
    ELSE MarkersFrom(paragraphs[n].text, 1) \o MarkersOfParagraphs(paragraphs, n + 1)

RECURSIVE MarkersOfKept(_, _)
\* the markers of the kept candidates f[n].., read in sequence
MarkersOfKept(f, n) ==
    IF n > Len(f) THEN << >>
    ELSE (IF HeadingCandidate(ParaBlocks[f[n]]) \/ ~DroppedCandidate(ParaBlocks[f[n]])
          THEN MarkersFrom(ParaBlocks[f[n]], 1) ELSE << >>)
         \o MarkersOfKept(f, n + 1)

\* C29: read in sequence, the {{fn:N}} markers of the paragraphs that
\* buildParagraphs returns are exactly the markers of the kept candidates of
\* its input, each once and in the same relative order: neither
\* de-hyphenation (with the relocation of a marker past the rejoined word)
\* nor merging deletes, duplicates or reorders a marker
C29_MarkersKeptInOrder ==
    (fn = "buildParagraphs" /\ runs = 1)
        => MarkersOfParagraphs(val, 1) = MarkersOfKept(orig, 1)

\* C29 witness: at the merge the marker of the first candidate was moved past
\* the rejoined word, and it still comes before the marker of the second
C29_Witness ==
    /\ fn = "buildParagraphs" /\ runs = 1 /\ orig = <<11, 9>>
    /\ val = <<Para("He did findthe{{fn:5}} rule{{fn:1}} was")>>
    /\ MarkersOfParagraphs(val, 1) = <<"{{fn:5}}", "{{fn:1}}">>

(***************************************************************************)
(* The text of the paragraphs through tagBoilerplate                       *)
(***************************************************************************)
RECURSIVE StripWS(_)
\* the text without its spaces
StripWS(t) ==
    IF Len(t) = 0 THEN ""
    ELSE IF Len(t) = 1 THEN (IF t = " " THEN "" ELSE t)
    ELSE StripWS(SubSeq(t, 1, Len(t) \div 2))
         \o StripWS(SubSeq(t, (Len(t) \div 2) + 1, Len(t)))

\* the paragraph text is wrapped in {{bp:...}} or {{bpj:...}}
IsWrapped(t) ==
    /\ Len(t) >= 7
    /\ SubSeq(t, Len(t) - 1, Len(t)) = "}}"
    /\ SubSeq(t, 1, 5) = "{{bp:" \/ SubSeq(t, 1, 6) = "{{bpj:"

\* the paragraph text with the wrapper removed
Unwrapped(t) ==
    IF ~IsWrapped(t) THEN t
    ELSE IF SubSeq(t, 1, 5) = "{{bp:" THEN SubSeq(t, 6, Len(t) - 2)
    ELSE SubSeq(t, 7, Len(t) - 2)

RECURSIVE TextOfPieces(_, _)
\* the texts of the paragraphs n.., wrappers removed, one after the other
TextOfPieces(g, n) ==
    IF n > Len(g) THEN "" ELSE Unwrapped(g[n].text) \o " " \o TextOfPieces(g, n + 1)

\* the text without a standalone 'Syllabus' label directly after the banner
WithoutSyllabusLabel(t) ==
    LET label == BANNER \o " Syllabus"
    IN IF /\ Len(t) >= Len(label) /\ SubSeq(t, 1, Len(label)) = label
          /\ (Len(t) = Len(label) \/ Ch(t, Len(label) + 1) = " ")
       THEN BANNER \o SubSeq(t, Len(label) + 1, Len(t))
       ELSE t

\* the paragraphs g are what the claim allows in the place of the paragraph
\* p: p itself, or wrapped pieces (the last one may be the unwrapped rest)
\* that carry the text of p, the label apart
PiecesOf(p, g) ==
    \/ g = <<p>>
    \/ /\ p.text # "" /\ ~IsWrapped(p.text)
       /\ \A k \in 1..(Len(g) - 1) : IsWrapped(g[k].text)
       /\ Len(g) = 1 => IsWrapped(g[1].text)
       /\ LET Same(got) == got \in {StripWS(p.text), StripWS(WithoutSyllabusLabel(p.text))}
          IN Same(StripWS(TextOfPieces(g, 1)))

RECURSIVE WrapsAndSplits(_, _, _, _)
\* the paragraphs out[j].. are the paragraphs in[i].., each as it was or
\* wrapped and split, in the same order
WrapsAndSplits(in, i, out, j) ==
    IF i > Len(in) THEN j > Len(out)
    ELSE \E k \in j..Len(out) :
             /\ PiecesOf(in[i], SubSeq(out, j, k))
             /\ WrapsAndSplits(in, i + 1, out, k + 1)

\* C30: tagBoilerplate only wraps and splits: the paragraph texts of the
\* result, in order and with the {{bp:...}} and {{bpj:...}} wrappers removed,
\* are the texts of the input paragraphs up to whitespace, the only text
\* removed being a standalone 'Syllabus' label directly after the court
\* banner, and the paragraphs it neither tags nor splits are unchanged and in
\* their original order
C30_OnlyWrapsAndSplits ==
    (fn = "tagBoilerplate" /\ runs >= 1) => WrapsAndSplits(arg, 1, val, 1)

\* C30 witness: the merged header was split in four wrapped segments and the
\* body text after the decided date, the 'Syllabus' label removed, and the
\* paragraph after it was left as it was
C30_Witness ==
    /\ fn = "tagBoilerplate" /\ runs = 1
    /\ arg = buildParagraphs(JoinBlocks(TagBlocks, <<3, 8>>, 1))
    /\ Len(val) = 6
    /\ val[1].text = "{{bp:SUPREME COURT OF THE UNITED STATES}}"
    /\ val[2].text = "{{bp:FOO v. BAR}}"
    /\ val[5].text = "The body starts here."
    /\ val[6] = arg[2]

====
